---- MODULE Spec2Model ----
(***************************************************************************)
(* Model of mwdblib's transport/session engine (mwdblib/api/api.py,        *)
(* mwdblib/api/options.py, mwdblib/exc.py): the APIClient session state,   *)
(* the JWT token wrapper, the HTTP error mapping and the request retry     *)
(* loop with re-login, rate-limit back-off and downtime retries.           *)
(***************************************************************************)
EXTENDS Integers, Sequences, FiniteSets, TLC

VARIABLES
    options,      \* APIClient.options (APIClientOptions fields used by the client)
    auth_token,   \* APIClient.auth_token: value of the JWTAuthToken held, NoToken for None
    headers,      \* APIClient.session.headers restricted to "Authorization"
    stack,        \* active APIClient.request activations, innermost last
    log,          \* HTTP requests sent and sleeps done by the current top-level call
    outcome,      \* how the last top-level call ended
    call,         \* the current top-level call and the session it started from
    http_error,   \* the requests HTTPError handed to map_http_error
    mapped,       \* the MWDBError class map_http_error returned for it
    cls,          \* the class of the entity at hand
    data,         \* MWDBElement.data: the cache of the entity
    server_version,   \* the version of the MWDB Core server
    server_metadata,  \* APIClient._server_metadata: the version fetched, or None
    extras,       \* the members the server adds to the JSON objects of its sub-resources
    content,      \* MWDBFile._content: the contents downloaded, or None
    requests,     \* the calls of the transport made by the last operation on the entity
    responses,    \* what each of these calls ended with: None, or the error raised
    oper,         \* the last operation on the entity
    result,       \* how the last operation on the entity ended
    repository,   \* the objects of the server, as the recent listing returns them
    uploaded,     \* the number of objects uploaded to the server so far
    listener,     \* where the generator of MWDB._listen stands
    blocking,     \* the blocking argument of MWDB._listen
    last,         \* the pivot of MWDB._listen: NoObject for None
    objects,      \* the objects MWDB._listen has collected in the current round
    position,     \* how many of them it has yielded
    yielded,      \* the objects the generator has yielded since it was made
    threads       \* where each thread that dispatches on the client stands in request()

\* the session of an APIClient and the call in progress on it
clientvars == <<options, auth_token, headers, stack, log, outcome, call>>

\* the HTTP error being classified
errorvars == <<http_error, mapped>>

\* the entity, the server it lives on and the last operation on it
elementvars ==
    <<cls, data, content, server_version, server_metadata, extras, requests, responses,
      oper, result>>

\* the server listing and the generator of MWDB._listen
listenvars == <<repository, uploaded, listener, blocking, last, objects, position, yielded>>

\* what the operations of an APIClient leave alone
othervars == <<errorvars, elementvars, listenvars, threads>>

vars == <<clientvars, othervars>>

----------------------------------------------------------------------------
(* Bounds of the model *)

\* largest max_downtime_retries a client is configured with
MaxN == 1

\* largest number of HTTP requests followed within one top-level call
MaxSends == 3

----------------------------------------------------------------------------
(* Python values *)

None == "None"

\* None where a token string is expected (auth_token, options.api_key)
NoToken == <<>>

\* OptionsField defaults
DefaultDowntimeTimeout == 10

\* retry_after when the Retry-After header is absent
DefaultRetryAfter == 60

\* datetime.datetime.utcnow().timestamp() at the time of the calls
Now == 100

PastEpoch == Now - 50

FutureEpoch == Now + 50

----------------------------------------------------------------------------
(* JWTAuthToken *)

\* base64.b64decode(segment + "==") followed by json.loads succeeds
B64JsonOk(segment) ==
    segment \in {"hdr", "hdr_exp_past", "pl_alice", "pl_alice_past", "pl_alice_new"}

\* json.loads(base64.b64decode(segment + "=="))
B64Json(segment) ==
    CASE segment = "hdr" -> [alg |-> "HS512"]
      [] segment = "hdr_exp_past" -> [alg |-> "HS512", exp |-> PastEpoch]
      [] segment = "pl_alice" -> [login |-> "alice"]
      [] segment = "pl_alice_past" -> [login |-> "alice", exp |-> PastEpoch]
      [] segment = "pl_alice_new" -> [login |-> "alice", exp |-> FutureEpoch]

\* JWTAuthToken.__init__ that takes the first two segments of any split
JWTValid_NoLengthTest(value) ==
    /\ Len(value) >= 2
    /\ B64JsonOk(value[1])
    /\ B64JsonOk(value[2])

\* JWTAuthToken.__init__ completes without InvalidCredentialsError
JWTValid(value) ==
    /\ Len(value) = 3
    /\ B64JsonOk(value[1])
    /\ B64JsonOk(value[2])

JWTHeader(value) == B64Json(value[1])

JWTPayload(value) == B64Json(value[2])

\* JWTAuthToken.is_expired
is_expired(value) ==
    IF "exp" \notin DOMAIN JWTHeader(value)
    THEN FALSE
    ELSE Now >= JWTHeader(value).exp

\* token strings, as the list value.split(".") yields
TokPlain == <<"hdr", "pl_alice", "sig">>

TokPayloadExpired == <<"hdr", "pl_alice_past", "sig">>

TokHeaderExpired == <<"hdr_exp_past", "pl_alice", "sig">>

TokFresh == <<"hdr", "pl_alice_new", "sig">>

TokTwoSegments == <<"hdr", "pl_alice">>

TokJunkPayload == <<"hdr", "junk", "sig">>

TokJunkHeader == <<"junk", "pl_alice", "sig">>

TokFourSegments == <<"hdr", "pl_alice", "sig", "sig">>

\* strings that are not tokens (the UUID of a key, a truncated token)
MalformedTokens == {TokTwoSegments, TokJunkPayload, TokJunkHeader, TokFourSegments}

\* API keys a caller supplies
ApiKeys == {TokPlain, TokPayloadExpired}

\* tokens the login endpoint issues
IssuedTokens == {TokFresh}

----------------------------------------------------------------------------
(* mwdblib/exc.py *)

\* "phrase in error_message", a message being the list of phrases it is made of
Contains(message, phrase) == \E i \in 1..Len(message) : message[i] = phrase

\* map_http_error without requests.codes.gateway_timeout in its gateway list
map_http_error_No504(status_code, error_message) ==
    IF status_code = 502 THEN "GatewayError"
    ELSE IF status_code = 504 THEN "InternalError"
    ELSE IF status_code \in {400, 401, 409, 429}
    THEN CASE status_code = 400 -> "ValidationError"
           [] status_code = 401 -> "NotAuthenticatedError"
           [] status_code = 409 -> "TypeConflictError"
           [] status_code = 429 -> "LimitExceededError"
    ELSE IF status_code = 403 THEN
        IF Contains(error_message, "Invalid login or password")
        THEN "InvalidCredentialsError"
        ELSE IF Contains(error_message, "Maintenance underway")
        THEN "MaintenanceUnderwayError"
        ELSE IF Contains(error_message, "User registration is pending")
        THEN "UserPendingError"
        ELSE IF Contains(error_message, "User account is disabled")
        THEN "UserDisabledError"
        ELSE "PermissionError"
    ELSE IF status_code = 404 THEN
        IF Contains(error_message, "The requested URL was not found on the server")
        THEN "EndpointNotFoundError"
        ELSE "ObjectNotFoundError"
    ELSE "InternalError"

\* map_http_error, on the status code and get_http_error_message(http_error)
map_http_error(status_code, error_message) ==
    IF status_code = 400 THEN "ValidationError"
    ELSE IF status_code = 401 THEN "NotAuthenticatedError"
    ELSE IF status_code = 403 THEN
        IF Contains(error_message, "Invalid login or password")
        THEN "InvalidCredentialsError"
        ELSE IF Contains(error_message, "Maintenance underway")
        THEN "MaintenanceUnderwayError"
        ELSE IF Contains(error_message, "User registration is pending")
        THEN "UserPendingError"
        ELSE IF Contains(error_message, "User account is disabled")
        THEN "UserDisabledError"
        ELSE "PermissionError"
    ELSE IF status_code = 404 THEN
        IF Contains(error_message, "The requested URL was not found on the server")
        THEN "EndpointNotFoundError"
        ELSE "ObjectNotFoundError"
    ELSE IF status_code = 409 THEN "TypeConflictError"
    ELSE IF status_code = 429 THEN "LimitExceededError"
    ELSE IF status_code \in {502, 504} THEN "GatewayError"
    ELSE "InternalError"

----------------------------------------------------------------------------
(* The server: what one HTTP request can be answered with *)

NoHeaders == [k \in {} |-> <<>>]

RetryAfterHeader(digits) == [k \in {"Retry-After"} |-> digits]

\* a response of the server; conn marks requests.exceptions.ConnectionError,
\* body is whether the body is JSON, token is the "token" member of a login body
Response(status, body, message, hdrs, token) ==
    [conn |-> FALSE, status_code |-> status, body |-> body,
     message |-> message, headers |-> hdrs, token |-> token]

ConnectionFailure ==
    [conn |-> TRUE, status_code |-> 0, body |-> "none",
     message |-> <<>>, headers |-> NoHeaders, token |-> NoToken]

ForbiddenMessages ==
    {<<"Forbidden">>, <<"Invalid login or password">>, <<"Maintenance underway">>,
     <<"User registration is pending">>, <<"User account is disabled">>}

NotFoundMessages ==
    {<<"Object not found">>, <<"The requested URL was not found on the server">>}

\* values of the Retry-After header, as digit strings
RetryAfterValues == {<<5>>}

SuccessResponses(url) ==
    {Response(200, "json", <<>>, NoHeaders, t) :
        t \in IF url = "auth/login" THEN IssuedTokens ELSE {NoToken}}
    \cup {Response(200, "notjson", <<>>, NoHeaders, NoToken)}

ErrorResponses ==
    {Response(s, "json", <<"error">>, NoHeaders, NoToken) : s \in {400, 401, 409, 500, 502, 504}}
    \cup {Response(403, "json", m, NoHeaders, NoToken) : m \in ForbiddenMessages}
    \cup {Response(404, "json", m, NoHeaders, NoToken) : m \in NotFoundMessages}
    \cup {Response(429, "json", <<"error">>, NoHeaders, NoToken)}
    \cup {Response(429, "json", <<"error">>, RetryAfterHeader(d), NoToken) : d \in RetryAfterValues}

ServerResponses(url) == SuccessResponses(url) \cup ErrorResponses \cup {ConnectionFailure}

\* int(text) for a string of decimal digits
RECURSIVE int(_)
int(digits) ==
    IF digits = <<>> THEN 0
    ELSE int(SubSeq(digits, 1, Len(digits) - 1)) * 10 + digits[Len(digits)]

----------------------------------------------------------------------------
(* APIClient *)

Methods == {"get", "post", "put", "delete"}

Usernames == {"alice"}

Passwords == {"pw"}

\* session.headers in which the Authorization entry is never found
HasAuthorization_Never(h) == FALSE

\* the Authorization entry of session.headers
HasAuthorization(h) == "Authorization" \in DOMAIN h

\* a header that carries the token without the scheme
Bearer_NoScheme(value) == [Authorization |-> value]

\* {"Authorization": f"Bearer {self.auth_token.value}"}
Bearer(value) == [k \in {"Authorization"} |-> <<"Bearer ">> \o value]

\* a request() that starts with no retry left
Frame_EmptyBudget(method, url, noauth, raw, cont, username, password) ==
    [method |-> method, url |-> url, noauth |-> noauth, raw |-> raw,
     downtime_retries |-> 0,
     cont |-> cont, username |-> username, password |-> password]

\* the arguments of an APIClient.request activation, the downtime budget left in
\* it, and whether it was entered from APIClient.login (cont = "login")
Frame(method, url, noauth, raw, cont, username, password) ==
    [method |-> method, url |-> url, noauth |-> noauth, raw |-> raw,
     downtime_retries |-> options.max_downtime_retries,
     cont |-> cont, username |-> username, password |-> password]

\* APIClient.login up to the self.post("auth/login", ..., noauth=True) it makes
LoginFrame(username, password) ==
    Frame("post", "auth/login", TRUE, FALSE, "login", username, password)

Top == stack[Len(stack)]

Pop == SubSeq(stack, 1, Len(stack) - 1)

SendEvent(f, resp) ==
    [ev |-> "send", method |-> f.method, url |-> f.url,
     auth |-> IF HasAuthorization(headers) THEN headers["Authorization"] ELSE <<>>,
     status |-> resp.status_code, headers |-> resp.headers, body |-> resp.body,
     token |-> resp.token, secs |-> 0]

SleepEvent(secs) ==
    [ev |-> "sleep", method |-> "", url |-> "", auth |-> <<>>,
     status |-> 0, headers |-> NoHeaders, body |-> "", token |-> NoToken,
     secs |-> secs]

Sends(l) == Cardinality({i \in 1..Len(l) : l[i].ev = "send"})

\* APIClient.perform_request: "ok" or the name of the exception raised
perform_request(resp) ==
    IF resp.conn THEN "ConnectionError"
    ELSE IF resp.status_code < 400 THEN "ok"
    ELSE map_http_error(resp.status_code, resp.message)

Idle == stack = <<>>

\* the record of a top-level call, of its other arguments (username and
\* password of login, the key of set_api_key) and of the session it starts from
Call(op, method, url, noauth, raw, args) ==
    [op |-> op, method |-> method, url |-> url, noauth |-> noauth, raw |-> raw,
     args |-> args, auth_token |-> auth_token, headers |-> headers, options |-> options]

NoCall == [op |-> "none", method |-> "", url |-> "", noauth |-> FALSE, raw |-> FALSE,
           args |-> <<>>, auth_token |-> NoToken, headers |-> NoHeaders,
           options |-> [api_key |-> NoToken, username |-> None, password |-> None,
                        obey_ratelimiter |-> TRUE, retry_on_downtime |-> FALSE,
                        max_downtime_retries |-> 0, downtime_timeout |-> 0,
                        retry_idempotent |-> TRUE]]

\* MustAuthenticate with the noauth test inverted
MustAuthenticate_Inverted(noauth) == noauth /\ auth_token = NoToken

\* "if not noauth and self.auth_token is None" at the entry of request()
MustAuthenticate(noauth) == ~noauth /\ auth_token = NoToken

\* BodyDecodes parsing JSON whether or not raw is set
BodyDecodes_IgnoresRaw(raw, resp) == resp.body = "json"

\* "return response.json() if not raw else response.content" does not raise
\* ValueError
BodyDecodes(raw, resp) == raw \/ resp.body = "json"

\* the value request() returns for a response
ResponseValue(raw, resp) == <<"return", IF raw THEN "content" ELSE "json", resp.body>>

\* "if self.options.password is None" after logout(): the error is re-raised
NoPassword == options.password = None

\* a client that re-raises every LimitExceededError
IgnoresRatelimiter_Always == TRUE

\* a client that obeys the rate limiter once per dispatch
IgnoresRatelimiter_AfterOne == ~options.obey_ratelimiter \/ log # <<>>

\* "if not self.options.obey_ratelimiter": the error is re-raised
IgnoresRatelimiter == ~options.obey_ratelimiter

\* retry_after with the header test inverted
retry_after_Inverted(resp) ==
    IF "Retry-After" \in DOMAIN resp.headers
    THEN DefaultRetryAfter
    ELSE 0

\* the seconds request() sleeps after a 429 response
retry_after(resp) ==
    IF "Retry-After" \notin DOMAIN resp.headers
    THEN DefaultRetryAfter
    ELSE int(resp.headers["Retry-After"])

\* IsDowntimeError also catching the error of the other 5xx responses
IsDowntimeError_AnyServerError(error) ==
    error \in {"ConnectionError", "GatewayError", "InternalError"}

\* the exceptions "except (ConnectionError, GatewayError)" catches
IsDowntimeError(error) == error \in {"ConnectionError", "GatewayError"}

\* GivesUpOnDowntime without the test of retry_on_downtime
GivesUpOnDowntime_NoFlagTest(f) ==
    \/ f.downtime_retries = 0
    \/ (~options.retry_idempotent /\ f.method = "post")

\* GivesUpOnDowntime without the test for non-idempotent POST
GivesUpOnDowntime_NoPostTest(f) ==
    \/ ~options.retry_on_downtime
    \/ f.downtime_retries = 0

\* GivesUpOnDowntime with the budget test off by one
GivesUpOnDowntime_OffByOne(f) ==
    \/ ~options.retry_on_downtime
    \/ f.downtime_retries = 1
    \/ (~options.retry_idempotent /\ f.method = "post")

\* the condition under which a downtime error is re-raised from activation f
GivesUpOnDowntime(f) ==
    \/ ~options.retry_on_downtime
    \/ f.downtime_retries = 0
    \/ (~options.retry_idempotent /\ f.method = "post")

\* an exception leaves every active request() and reaches the caller
Raised(error) ==
    /\ stack' = <<>>
    /\ outcome' = <<"raise", error>>

----------------------------------------------------------------------------
(* MWDBElement and MWDBObject: the lazily loaded cache of an entity *)

\* the classes of the entities, with their URL_TYPE and TYPE
URL_TYPE(c) ==
    CASE c = "MWDBFile" -> "file"
      [] c = "MWDBConfig" -> "config"
      [] c = "MWDBBlob" -> "blob"
      [] OTHER -> "object"

TYPE(c) ==
    CASE c = "MWDBFile" -> "file"
      [] c = "MWDBConfig" -> "static_config"
      [] c = "MWDBBlob" -> "text_blob"
      [] OTHER -> "object"

\* the identifier of the entity
Id == "id1"

\* the values a server serves for a field
Values == {"v1", "v2"}

\* the keys of the canonical detail payload besides id and type
CanonicalKeys == {"tags", "upload_time", "parents", "children"}

\* an empty dict
EmptyDict == [k \in {} |-> ""]

\* an update that replaces the dict by the response
Update_Replaces(d, r) == r

\* dict.update
Update(d, r) ==
    [k \in DOMAIN d \cup DOMAIN r |-> IF k \in DOMAIN r THEN r[k] ELSE d[k]]

\* a dict of one key
Dict1(key, value) == [k \in {key} |-> value]

\* the versions of MWDB Core met by the client
ServerVersions == {"1.9.0", "2.2.0", "2.6.0"}

\* parse_version
parse_version(version) ==
    CASE version = "1.9.0" -> <<1, 9, 0>>
      [] version = "2.0.0" -> <<2, 0, 0>>
      [] version = "2.2.0" -> <<2, 2, 0>>
      [] version = "2.3.0" -> <<2, 3, 0>>
      [] version = "2.6.0" -> <<2, 6, 0>>

\* a >= b on the tuples of parse_version
VersionGE(a, b) ==
    \/ a[1] > b[1]
    \/ a[1] = b[1] /\ a[2] > b[2]
    \/ a[1] = b[1] /\ a[2] = b[2] /\ a[3] >= b[3]

\* the URLs of the entity
CanonicalUrl(c) == <<URL_TYPE(c), Id>>

ObjectUrl(resource) == <<"object", Id, resource>>

\* the server has the endpoint: the attribute API came with 2.6.0, the
\* Karton API with 2.3.0 and the download endpoint of the files with 2.2.0
EndpointExists(version, url) ==
    IF Len(url) = 3 /\ url[3] = "attribute"
    THEN VersionGE(parse_version(version), parse_version("2.6.0"))
    ELSE IF Len(url) >= 3 /\ url[3] = "karton"
    THEN VersionGE(parse_version(version), parse_version("2.3.0"))
    ELSE IF Len(url) >= 3 /\ url[1] = "file" /\ url[3] = "download"
    THEN VersionGE(parse_version(version), parse_version("2.2.0"))
    ELSE TRUE

\* the JSON object of a sub-resource, with the members the server adds to it
WithExtras(body) == Update([k \in extras |-> "v2"], body)

\* the JSON body of a successful GET, with v the value the server serves now
Body(c, url, v) ==
    IF url = CanonicalUrl(c)
    THEN [k \in {"id", "type"} \cup CanonicalKeys |->
            IF k = "id" THEN Id
            ELSE IF k = "type" THEN TYPE(c)
            ELSE IF k = "tags" THEN v
            ELSE "v1"]
    ELSE IF url = ObjectUrl("share") THEN WithExtras(Dict1("shares", "v1"))
    ELSE IF url = ObjectUrl("attribute") THEN WithExtras(Dict1("attributes", "v1"))
    ELSE IF url = ObjectUrl("meta") THEN WithExtras(Dict1("metakeys", "v1"))
    ELSE IF url = ObjectUrl("karton") THEN WithExtras(Dict1("analyses", "v1"))
    ELSE IF url \in {ObjectUrl("tag"), ObjectUrl("comment")} THEN Dict1("list", v)
    ELSE Dict1("list", "v1")

\* the errors of the transport that a call can end with
TransportErrors == {"ObjectNotFoundError"}

\* the most calls one operation makes
MaxCalls == 3

\* which call of an operation fails, and how (at = 0: none fails)
NoFault == [at |-> 0, error |-> None]

\* the faults of an operation that makes at most n calls
Faults(n) == {NoFault} \cup {[at |-> k, error |-> e] : k \in 1..n, e \in TransportErrors}

\* the progress of an operation: the cache, the contents held, the server
\* metadata held by the client, the calls made and what they ended with, the
\* exception raised and the value returned
Start ==
    [data |-> data, content |-> content, meta |-> server_metadata,
     reqs |-> <<>>, resps |-> <<>>, exc |-> None, ret |-> None]

\* what the call of an operation that has made n calls ends with
CallError(n, url, fault) ==
    IF fault.at = n + 1 THEN fault.error
    ELSE IF ~EndpointExists(server_version, url) THEN "EndpointNotFoundError"
    ELSE None

\* APIClient.get/post/put/delete as seen by the entity
ApiCall(st, method, url, fault) ==
    [st EXCEPT !.reqs = Append(@, [method |-> method, url |-> url]),
               !.resps = Append(@, CallError(Len(st.reqs), url, fault)),
               !.exc = CallError(Len(st.reqs), url, fault)]

\* the mappers of the sub-resources: none, lambda data: {key: data} and
\* lambda data: {key: data.get(key, [])}
NoMapper == [kind |-> "none", key |-> ""]

ListMapper(key) == [kind |-> "list", key |-> key]

GetMapper(key) == [kind |-> "get", key |-> key]

\* mapper(data)
Mapped(mapper, body) ==
    CASE mapper.kind = "none" -> body
      [] mapper.kind = "list" -> Dict1(mapper.key, body["list"])
      [] mapper.kind = "get" ->
            Dict1(mapper.key, IF mapper.key \in DOMAIN body THEN body[mapper.key] ELSE "empty")

\* MWDBElement._load
load(st, url, mapper, v, fault) ==
    LET r == ApiCall(st, "get", url, fault)
    IN  IF r.exc # None THEN r
        ELSE [r EXCEPT !.data = Update(@, Mapped(mapper, Body(cls, url, v)))]

\* an _expire that evicts nothing
expire_Nothing(d, key) == d

\* MWDBElement._expire
expire(d, key) == [k \in DOMAIN d \ {key} |-> d[k]]

\* self.data[key]
GetItem(st, key) ==
    IF st.exc # None THEN st
    ELSE IF key \in DOMAIN st.data THEN [st EXCEPT !.ret = st.data[key]]
    ELSE [st EXCEPT !.exc = "KeyError"]

\* a property that loads every time it is read
Lazy_AlwaysLoads(st, key) == TRUE

\* if key not in self.data
Lazy(st, key) == key \notin DOMAIN st.data

\* a server_metadata that is fetched each time it is read
GetServerVersion_AlwaysFetches(st, fault) ==
    LET r == ApiCall(st, "get", <<"server">>, fault)
    IN  IF r.exc # None THEN r ELSE [r EXCEPT !.meta = server_version]

\* APIClient.server_version, through APIClient.server_metadata
GetServerVersion(st, fault) ==
    IF st.meta # None THEN st
    ELSE LET r == ApiCall(st, "get", <<"server">>, fault)
         IN  IF r.exc # None THEN r ELSE [r EXCEPT !.meta = server_version]

\* the lazily loaded properties of MWDBObject

tags(st, v, fault) ==
    GetItem(IF Lazy(st, "tags")
            THEN load(st, ObjectUrl("tag"), ListMapper("tags"), v, fault)
            ELSE st, "tags")

comments(st, v, fault) ==
    GetItem(IF Lazy(st, "comments")
            THEN load(st, ObjectUrl("comment"), ListMapper("comments"), v, fault)
            ELSE st, "comments")

shares(st, v, fault) ==
    GetItem(IF Lazy(st, "shares")
            THEN load(st, ObjectUrl("share"), GetMapper("shares"), v, fault)
            ELSE st, "shares")

get_attributes(st, v, fault) ==
    GetItem(IF Lazy(st, "attributes")
            THEN load(st, ObjectUrl("attribute"), NoMapper, v, fault)
            ELSE st, "attributes")

get_metakeys(st, v, fault) ==
    GetItem(IF Lazy(st, "metakeys")
            THEN load(st, ObjectUrl("meta"), NoMapper, v, fault)
            ELSE st, "metakeys")

upload_time(st, v, fault) ==
    GetItem(IF Lazy(st, "upload_time")
            THEN load(st, CanonicalUrl(cls), NoMapper, v, fault)
            ELSE st, "upload_time")

parents(st, v, fault) ==
    GetItem(IF Lazy(st, "parents")
            THEN load(st, CanonicalUrl(cls), NoMapper, v, fault)
            ELSE st, "parents")

\* a children that fetches the canonical payload each time it is read
children_Reloads(st, v, fault) ==
    GetItem(load(st, CanonicalUrl(cls), NoMapper, v, fault), "children")

children(st, v, fault) ==
    GetItem(IF Lazy(st, "children")
            THEN load(st, CanonicalUrl(cls), NoMapper, v, fault)
            ELSE st, "children")

get_analyses(st, v, fault) ==
    GetItem(IF Lazy(st, "analyses")
            THEN load(st, ObjectUrl("karton"), GetMapper("analyses"), v, fault)
            ELSE st, "analyses")

\* the mutators of MWDBObject: one write, then the evictions

Raise(st, error) == [st EXCEPT !.exc = error]

add_child(st, fault) ==
    LET r == ApiCall(st, "put", <<"object", Id, "child", "id2">>, fault)
    IN  IF r.exc # None THEN r ELSE [r EXCEPT !.data = expire(@, "children")]

\* an add_tag that fetches the tags again as soon as it has written
add_tag_Eager(st, fault) ==
    LET r == ApiCall(st, "put", ObjectUrl("tag"), fault)
    IN  IF r.exc # None THEN r
        ELSE load([r EXCEPT !.data = expire(@, "tags")], ObjectUrl("tag"),
                  ListMapper("tags"), "v1", fault)

add_tag(st, fault) ==
    LET r == ApiCall(st, "put", ObjectUrl("tag"), fault)
    IN  IF r.exc # None THEN r ELSE [r EXCEPT !.data = expire(@, "tags")]

\* a remove_tag that evicts the tags before it writes
remove_tag_EvictsFirst(st, fault) ==
    ApiCall([st EXCEPT !.data = expire(@, "tags")], "delete", ObjectUrl("tag"), fault)

remove_tag(st, fault) ==
    LET r == ApiCall(st, "delete", ObjectUrl("tag"), fault)
    IN  IF r.exc # None THEN r ELSE [r EXCEPT !.data = expire(@, "tags")]

add_comment(st, fault) ==
    LET r == ApiCall(st, "post", ObjectUrl("comment"), fault)
    IN  IF r.exc # None THEN r ELSE [r EXCEPT !.data = expire(@, "comments")]

add_attribute_main(st, key, fault) ==
    IF key = "karton" THEN Raise(st, "ValueError")
    ELSE LET r == ApiCall(st, "post", ObjectUrl("attribute"), fault)
         IN  IF r.exc # None THEN r
             ELSE [r EXCEPT !.data = expire(expire(@, "attributes"), "metakeys")]

add_metakey(st, value_type, fault) ==
    IF value_type # "str" THEN Raise(st, "TypeError")
    ELSE LET r == ApiCall(st, "post", ObjectUrl("meta"), fault)
         IN  IF r.exc # None THEN r
             ELSE [r EXCEPT !.data = expire(expire(@, "attributes"), "metakeys")]

reanalyze_main(st, fault) ==
    LET r == ApiCall(st, "post", ObjectUrl("karton"), fault)
    IN  IF r.exc # None THEN r ELSE [r EXCEPT !.data = expire(@, "analyses")]

assign_analysis_main(st, fault) ==
    LET r == ApiCall(st, "put", <<"object", Id, "karton", "a1">>, fault)
    IN  IF r.exc # None THEN r ELSE [r EXCEPT !.data = expire(@, "analyses")]

share_with(st, fault) ==
    LET r == ApiCall(st, "put", ObjectUrl("share"), fault)
    IN  IF r.exc # None THEN r ELSE [r EXCEPT !.data = expire(@, "shares")]

\* the tokens a server issues for a download
DownloadTokens == {"t1", "t2"}

\* the contents of the file, as the raw body of the response
FileContents == "bytes"

\* "file/{id}/download", and the same with params={"token": token}
DownloadUrl == <<"file", Id, "download">>

DownloadUrlWith(token) == <<"file", Id, "download", "token", token>>

\* a download that fetches the contents without the token it was given
download_main_NoToken(st, token, fault) ==
    LET r == ApiCall(st, "post", DownloadUrl, fault)
    IN  IF r.exc # None THEN r
        ELSE LET s == ApiCall(r, "get", DownloadUrl, fault)
             IN  IF s.exc # None THEN s ELSE [s EXCEPT !.ret = FileContents]

\* MWDBFile.download, the method for the servers from 2.2.0 on: token is the
\* token of the response to the POST
download_main(st, token, fault) ==
    LET r == ApiCall(st, "post", DownloadUrl, fault)
    IN  IF r.exc # None THEN r
        ELSE LET s == ApiCall(r, "get", DownloadUrlWith(token), fault)
             IN  IF s.exc # None THEN s ELSE [s EXCEPT !.ret = FileContents]

\* MWDBFile.download_legacy: token is the last segment of the URL of the
\* response to the POST
download_legacy(st, token, fault) ==
    LET r == ApiCall(st, "post", <<"request", "sample", Id>>, fault)
    IN  IF r.exc # None THEN r
        ELSE LET s == ApiCall(r, "get", <<"download", token>>, fault)
             IN  IF s.exc # None THEN s ELSE [s EXCEPT !.ret = FileContents]

\* a delete of a comment that evicts the comments of its parent
delete_comment_Evicts(st, comment, fault) ==
    LET r == ApiCall(st, "delete", <<"object", st.data["id"], "comment", comment>>, fault)
    IN  IF r.exc # None THEN r ELSE [r EXCEPT !.data = expire(@, "comments")]

\* MWDBComment.delete, on a comment of the entity (its parent)
delete_comment(st, comment, fault) ==
    ApiCall(st, "delete", <<"object", st.data["id"], "comment", comment>>, fault)

\* the arguments of a method: the value served to its fetches, the key and
\* the type of the value of an attribute
Args(v, key, value_type) == [v |-> v, key |-> key, value_type |-> value_type]

\* main_method(mwdb, *args) and fallback_method(mwdb, *args)
CallMethod(method, st, args, fault) ==
    CASE method = "_get_attributes" -> get_attributes(st, args.v, fault)
      [] method = "_get_attributes_fallback" -> get_metakeys(st, args.v, fault)
      [] method = "analyses" -> get_analyses(st, args.v, fault)
      [] method = "add_attribute" -> add_attribute_main(st, args.key, fault)
      [] method = "add_attribute_fallback" -> add_metakey(st, args.value_type, fault)
      [] method = "reanalyze" -> reanalyze_main(st, fault)
      [] method = "assign_analysis" -> assign_analysis_main(st, fault)
      [] method = "download" -> download_main(st, args.v, fault)
      [] method = "download_legacy" -> download_legacy(st, args.v, fault)

\* methods for which no fallback is registered
Fallback_None(method) == [version |-> None, method |-> None]

\* the fallback registered for a method and its version (None: no fallback)
Fallback(method) ==
    CASE method = "_get_attributes" -> [version |-> "2.0.0", method |-> "_get_attributes_fallback"]
      [] method = "add_attribute" -> [version |-> "2.0.0", method |-> "add_attribute_fallback"]
      [] method = "download" -> [version |-> "2.0.0", method |-> "download_legacy"]
      [] OTHER -> [version |-> None, method |-> None]

\* VersionDependentMethod.__call__
VersionDependent(st, required_version, main_method, args, fault) ==
    LET main == \/ st.meta = None
                \/ VersionGE(parse_version(st.meta), parse_version(required_version))
        r == IF main THEN CallMethod(main_method, st, args, fault) ELSE st
    IN  IF main /\ r.exc # "EndpointNotFoundError" THEN r
        ELSE LET s == GetServerVersion([r EXCEPT !.exc = None], fault)
                 fallback == Fallback(main_method)
             IN  IF s.exc # None THEN s
                 ELSE IF main /\ VersionGE(parse_version(s.meta),
                                           parse_version(required_version))
                 THEN [s EXCEPT !.exc = "EndpointNotFoundError"]
                 ELSE IF /\ fallback.version # None
                         /\ VersionGE(parse_version(s.meta), parse_version(fallback.version))
                 THEN CallMethod(fallback.method, s, args, fault)
                 ELSE [s EXCEPT !.exc = "VersionMismatchError"]

attributes(st, v, fault) ==
    VersionDependent(st, "2.6.0", "_get_attributes", Args(v, None, None), fault)

analyses(st, v, fault) ==
    VersionDependent(st, "2.3.0", "analyses", Args(v, None, None), fault)

add_attribute(st, key, value_type, fault) ==
    VersionDependent(st, "2.6.0", "add_attribute", Args("v1", key, value_type), fault)

reanalyze(st, fault) ==
    VersionDependent(st, "2.3.0", "reanalyze", Args("v1", None, None), fault)

assign_analysis(st, fault) ==
    VersionDependent(st, "2.3.0", "assign_analysis", Args("v1", None, None), fault)

\* MWDBFile.download
download(st, token, fault) ==
    VersionDependent(st, "2.2.0", "download", Args(token, None, None), fault)

\* MWDBFile.content
get_content(st, token, fault) ==
    IF st.content # None THEN [st EXCEPT !.ret = st.content]
    ELSE LET r == download(st, token, fault)
         IN  IF r.exc # None THEN r ELSE [r EXCEPT !.content = r.ret]

\* the declared fields of an MWDBObject
Fields ==
    {"id", "object_type", "tags", "comments", "shares", "attributes", "metakeys",
     "upload_time", "children", "analyses"}

ReadField(st, field, v, fault) ==
    CASE field = "id" -> GetItem(st, "id")
      [] field = "object_type" -> GetItem(st, "type")
      [] field = "tags" -> tags(st, v, fault)
      [] field = "comments" -> comments(st, v, fault)
      [] field = "shares" -> shares(st, v, fault)
      [] field = "attributes" -> attributes(st, v, fault)
      [] field = "metakeys" -> get_metakeys(st, v, fault)
      [] field = "upload_time" -> upload_time(st, v, fault)
      [] field = "parents" -> parents(st, v, fault)
      [] field = "children" -> children(st, v, fault)
      [] field = "analyses" -> analyses(st, v, fault)

\* the keys of add_attribute and the types of its value
AttributeKeys == {"family", "karton"}

ValueTypes == {"str", "dict"}

Mutators ==
    {"add_child", "add_tag", "remove_tag", "add_comment", "add_attribute",
     "reanalyze", "assign_analysis", "share_with"}

CallMutator(st, name, args, fault) ==
    CASE name = "add_child" -> add_child(st, fault)
      [] name = "add_tag" -> add_tag(st, fault)
      [] name = "remove_tag" -> remove_tag(st, fault)
      [] name = "add_comment" -> add_comment(st, fault)
      [] name = "add_attribute" -> add_attribute(st, args[1], args[2], fault)
      [] name = "reanalyze" -> reanalyze(st, fault)
      [] name = "assign_analysis" -> assign_analysis(st, fault)
      [] name = "share_with" -> share_with(st, fault)

\* a flush that keeps the whole cache
flush_KeepsAll(st) == st

\* a flush that keeps the type discriminant alone
flush_DropsId(st) ==
    IF "type" \in DOMAIN st.data
    THEN [st EXCEPT !.data = Dict1("type", st.data["type"])]
    ELSE Raise(st, "KeyError")

\* MWDBObject.flush
flush(st) ==
    IF "type" \in DOMAIN st.data
    THEN [st EXCEPT !.data = [k \in {"id", "type"} |-> st.data[k]]]
    ELSE Raise(st, "KeyError")

\* MWDBObject.remove
remove(st, fault) ==
    LET r == ApiCall(st, "delete", <<"object", Id>>, fault)
    IN  IF r.exc # None THEN r ELSE flush(r)

\* a create that takes any unrecognised type for a blob
create_DefaultsToBlob(payload) ==
    IF "type" \notin DOMAIN payload THEN [cls |-> "none", exc |-> "KeyError"]
    ELSE IF payload["type"] = TYPE("MWDBFile") THEN [cls |-> "MWDBFile", exc |-> None]
    ELSE IF payload["type"] = TYPE("MWDBConfig") THEN [cls |-> "MWDBConfig", exc |-> None]
    ELSE [cls |-> "MWDBBlob", exc |-> None]

\* MWDBObject.create: the class of the entity it makes, or the exception it
\* raises
create(payload) ==
    IF "type" \notin DOMAIN payload THEN [cls |-> "none", exc |-> "KeyError"]
    ELSE IF payload["type"] = TYPE("MWDBFile") THEN [cls |-> "MWDBFile", exc |-> None]
    ELSE IF payload["type"] = TYPE("MWDBConfig") THEN [cls |-> "MWDBConfig", exc |-> None]
    ELSE IF payload["type"] = TYPE("MWDBBlob") THEN [cls |-> "MWDBBlob", exc |-> None]
    ELSE [cls |-> "none", exc |-> "RuntimeError"]

\* no entity is at hand
NoElement ==
    /\ cls = "none"
    /\ data = EmptyDict
    /\ server_version = "2.6.0"
    /\ server_metadata = None
    /\ extras = {}
    /\ content = None
    /\ requests = <<>>
    /\ responses = <<>>
    /\ oper = [name |-> "none", arg |-> <<>>]
    /\ result = <<"none">>

\* None where an object is expected
NoObject == 0

\* no generator of MWDB._listen has been made, on a server without objects
\* no thread but the caller's dispatches on the client
NoThreads == threads = <<>>

NoListener ==
    /\ repository = <<>>
    /\ uploaded = 0
    /\ listener = <<"none">>
    /\ blocking = FALSE
    /\ last = NoObject
    /\ objects = <<>>
    /\ position = 0
    /\ yielded = <<>>

----------------------------------------------------------------------------
(* State after APIClient.__init__ *)

\* no HTTP error is being classified
NoHTTPError ==
    /\ http_error = [status_code |-> 0, message |-> <<>>]
    /\ mapped = "none"

Init ==
    /\ \E key \in {NoToken} \cup ApiKeys, username \in {None} \cup Usernames,
          password \in {None} \cup Passwords,
          obey \in BOOLEAN, retry \in BOOLEAN, idem \in BOOLEAN, n \in 0..MaxN :
          \* a client made with api_key, with or without username and password
          \* as well, or one made without credentials; the client made with
          \* username and password alone is the latter after Login
          /\ (username = None) = (password = None)
          /\ key = NoToken => username = None
          /\ options = [api_key |-> key, username |-> username, password |-> password,
                        obey_ratelimiter |-> obey, retry_on_downtime |-> retry,
                        max_downtime_retries |-> n,
                        downtime_timeout |-> DefaultDowntimeTimeout,
                        retry_idempotent |-> idem]
          /\ auth_token = key
          /\ headers = IF key = NoToken THEN NoHeaders ELSE Bearer(key)
    /\ stack = <<>>
    /\ log = <<>>
    /\ outcome = <<"none">>
    /\ call = NoCall
    /\ NoHTTPError
    /\ NoElement
    /\ NoListener
    /\ NoThreads

----------------------------------------------------------------------------
(* Top-level calls on the client *)

\* APIClient.request called by the user (through get/post/put/delete), up to
\* the first iteration of its retry loop
Request(method, url, noauth, raw) ==
    /\ Idle
    /\ call' = Call("request", method, url, noauth, raw, <<>>)
    /\ log' = <<>>
    /\ IF MustAuthenticate(noauth)
       THEN Raised("NotAuthenticatedError")
       ELSE /\ stack' = <<Frame(method, url, noauth, raw, "caller", None, None)>>
            /\ outcome' = <<"none">>
    /\ UNCHANGED <<options, auth_token, headers>>
    /\ UNCHANGED othervars

\* APIClient.login called by the user, up to the request it sends
Login(username, password) ==
    /\ Idle
    /\ call' = Call("login", "post", "auth/login", TRUE, FALSE, <<username, password>>)
    /\ log' = <<>>
    /\ stack' = <<LoginFrame(username, password)>>
    /\ outcome' = <<"none">>
    /\ UNCHANGED <<options, auth_token, headers>>
    /\ UNCHANGED othervars

\* APIClient.set_api_key
SetApiKey(api_key) ==
    /\ Idle
    /\ call' = Call("set_api_key", "", "", FALSE, FALSE, api_key)
    /\ log' = <<>>
    /\ stack' = <<>>
    /\ IF JWTValid(api_key)
       THEN /\ auth_token' = api_key
            /\ headers' = Bearer(api_key)
            /\ options' = [options EXCEPT !.api_key = api_key]
            /\ outcome' = <<"return", None>>
       ELSE /\ outcome' = <<"raise", "InvalidCredentialsError">>
            /\ UNCHANGED <<options, auth_token, headers>>
    /\ UNCHANGED othervars

\* APIClient.logout called by the user
Logout ==
    /\ Idle
    /\ call' = Call("logout", "", "", FALSE, FALSE, <<>>)
    /\ log' = <<>>
    /\ stack' = <<>>
    /\ auth_token' = NoToken
    /\ IF HasAuthorization(headers)
       THEN /\ headers' = NoHeaders
            /\ outcome' = <<"return", None>>
       ELSE /\ outcome' = <<"raise", "KeyError">>
            /\ UNCHANGED headers
    /\ UNCHANGED options
    /\ UNCHANGED othervars

----------------------------------------------------------------------------
(* One iteration of the retry loop of the innermost APIClient.request *)

CanSend == ~Idle /\ Sends(log) < MaxSends

\* login() that forgets to store the credentials it was given
StoreCredentials_KeepsOld(opts, username, password) == opts

\* login(): store credentials in API options
StoreCredentials(opts, username, password) ==
    [opts EXCEPT !.username = username, !.password = password]

\* perform_request returns: the try block returns or raises BadResponseError;
\* a request made by login() continues in login() and then in the except
\* block of the request() that called login()
RequestSucceeds(resp) ==
    /\ CanSend
    /\ perform_request(resp) = "ok"
    /\ log' = Append(log, SendEvent(Top, resp))
    /\ call' = call
    /\ IF ~BodyDecodes(Top.raw, resp)
       THEN /\ Raised("BadResponseError")
            /\ UNCHANGED <<options, auth_token, headers>>
       ELSE IF Top.cont = "login"
       THEN IF JWTValid(resp.token)
            THEN /\ auth_token' = resp.token
                 /\ headers' = Bearer(resp.token)
                 /\ options' = StoreCredentials(options, Top.username, Top.password)
                 /\ stack' = Pop
                 /\ outcome' = IF Pop = <<>> THEN <<"return", None>> ELSE outcome
            ELSE /\ Raised("InvalidCredentialsError")
                 /\ UNCHANGED <<options, auth_token, headers>>
       ELSE /\ stack' = Pop
            /\ outcome' = ResponseValue(Top.raw, resp)
            /\ UNCHANGED <<options, auth_token, headers>>
    /\ UNCHANGED othervars

\* except NotAuthenticatedError
RequestNotAuthenticated(resp) ==
    /\ CanSend
    /\ perform_request(resp) = "NotAuthenticatedError"
    /\ log' = Append(log, SendEvent(Top, resp))
    /\ call' = call
    /\ auth_token' = NoToken
    /\ options' = options
    /\ IF ~HasAuthorization(headers)
       THEN /\ Raised("KeyError")
            /\ headers' = headers
       ELSE /\ headers' = NoHeaders
            /\ IF NoPassword
               THEN Raised("NotAuthenticatedError")
               ELSE /\ stack' = Append(stack, LoginFrame(options.username, options.password))
                    /\ outcome' = outcome
    /\ UNCHANGED othervars

\* except LimitExceededError
RequestLimitExceeded(resp) ==
    /\ CanSend
    /\ perform_request(resp) = "LimitExceededError"
    /\ call' = call
    /\ IF IgnoresRatelimiter
       THEN /\ Raised("LimitExceededError")
            /\ log' = Append(log, SendEvent(Top, resp))
       ELSE /\ log' = log \o <<SendEvent(Top, resp), SleepEvent(retry_after(resp))>>
            /\ UNCHANGED <<stack, outcome>>
    /\ UNCHANGED <<options, auth_token, headers>>
    /\ UNCHANGED othervars

\* except (ConnectionError, GatewayError)
RequestDowntime(resp) ==
    /\ CanSend
    /\ IsDowntimeError(perform_request(resp))
    /\ call' = call
    /\ IF GivesUpOnDowntime(Top)
       THEN /\ Raised(perform_request(resp))
            /\ log' = Append(log, SendEvent(Top, resp))
       ELSE /\ stack' = [stack EXCEPT ![Len(stack)].downtime_retries = @ - 1]
            /\ log' = log \o <<SendEvent(Top, resp), SleepEvent(options.downtime_timeout)>>
            /\ outcome' = outcome
    /\ UNCHANGED <<options, auth_token, headers>>
    /\ UNCHANGED othervars

\* any other exception of perform_request is not caught by request()
RequestFails(resp) ==
    /\ CanSend
    /\ perform_request(resp) \notin {"ok", "NotAuthenticatedError", "LimitExceededError"}
    /\ ~IsDowntimeError(perform_request(resp))
    /\ call' = call
    /\ log' = Append(log, SendEvent(Top, resp))
    /\ Raised(perform_request(resp))
    /\ UNCHANGED <<options, auth_token, headers>>
    /\ UNCHANGED othervars

----------------------------------------------------------------------------

\* the calls the library makes through get/post/put/delete: a JSON read, a raw
\* download, the writes, and the unauthenticated read of the server metadata
Calls ==
    {[method |-> "get", url |-> "object", noauth |-> FALSE, raw |-> FALSE],
     [method |-> "get", url |-> "object", noauth |-> FALSE, raw |-> TRUE],
     [method |-> "post", url |-> "object", noauth |-> FALSE, raw |-> FALSE],
     [method |-> "put", url |-> "object", noauth |-> FALSE, raw |-> FALSE],
     [method |-> "delete", url |-> "object", noauth |-> FALSE, raw |-> FALSE],
     [method |-> "get", url |-> "server", noauth |-> TRUE, raw |-> FALSE]}

Next ==
    \/ \E c \in Calls : Request(c.method, c.url, c.noauth, c.raw)
    \/ \E username \in Usernames, password \in Passwords : Login(username, password)
    \/ \E api_key \in ApiKeys \cup MalformedTokens : SetApiKey(api_key)
    \/ Logout
    \/ CanSend /\ \E resp \in ServerResponses(Top.url) : RequestSucceeds(resp)
    \/ CanSend /\ \E resp \in ServerResponses(Top.url) : RequestNotAuthenticated(resp)
    \/ CanSend /\ \E resp \in ServerResponses(Top.url) : RequestLimitExceeded(resp)
    \/ CanSend /\ \E resp \in ServerResponses(Top.url) : RequestDowntime(resp)
    \/ CanSend /\ \E resp \in ServerResponses(Top.url) : RequestFails(resp)

Spec == Init /\ [][Next]_vars

----------------------------------------------------------------------------
(* The retry loop against a server whose failures are transient *)

\* the requests of the log that met a connection error or a 502/504 response
Downtimes(l) ==
    Cardinality({i \in 1..Len(l) : l[i].ev = "send" /\ l[i].status \in {0, 502, 504}})

\* the activations of request() that are waiting for a successful response
\* once resp is received: those on the stack and, after a 401, the one of
\* the login that follows
Waiting(resp) ==
    Len(stack) + (IF perform_request(resp) = "NotAuthenticatedError" THEN 1 ELSE 0)

\* the response is a success, or a failure that the dispatch is meant to
\* absorb: a 429 with obey_ratelimiter set, a 401 on a session that holds a
\* token and remembers a password, a downtime error with retry_on_downtime
\* set while fewer than max_downtime_retries were met; the failures are
\* finitely many (every waiting activation has a request left for its
\* success)
Transient(resp) ==
    IF perform_request(resp) = "ok"
    THEN /\ BodyDecodes(Top.raw, resp)
         /\ Top.cont = "login" => JWTValid(resp.token)
    ELSE /\ Sends(log) + 1 + Waiting(resp) <= MaxSends
         /\ \/ /\ perform_request(resp) = "LimitExceededError"
               /\ options.obey_ratelimiter
            \/ /\ perform_request(resp) = "NotAuthenticatedError"
               /\ options.password # None
               /\ HasAuthorization(headers)
            \/ /\ IsDowntimeError(perform_request(resp))
               /\ options.retry_on_downtime
               /\ Downtimes(log) < options.max_downtime_retries

TransientResponses(url) == {resp \in ServerResponses(url) : Transient(resp)}

\* one iteration of the retry loop against such a server
Iterate ==
    \/ CanSend /\ \E resp \in TransientResponses(Top.url) : RequestSucceeds(resp)
    \/ CanSend /\ \E resp \in TransientResponses(Top.url) : RequestNotAuthenticated(resp)
    \/ CanSend /\ \E resp \in TransientResponses(Top.url) : RequestLimitExceeded(resp)
    \/ CanSend /\ \E resp \in TransientResponses(Top.url) : RequestDowntime(resp)

\* the calls made against such a server: request() tells POST from the other
\* methods and nothing else about the method
TransientCalls == {c \in Calls : c.method \in {"get", "post"}}

\* the dispatches a user makes, and their iterations
NextTransient ==
    \/ \E c \in TransientCalls : Request(c.method, c.url, c.noauth, c.raw)
    \/ \E username \in Usernames, password \in Passwords : Login(username, password)
    \/ Iterate

\* request() is sequential code: once called, its loop goes on (the server
\* answers every request and every sleep ends)
SpecTransient == Init /\ [][NextTransient]_vars /\ WF_vars(Iterate)

----------------------------------------------------------------------------
(* The transport engine against a server that answers 429 to every request *)

\* the 429 responses, with and without a Retry-After header
LimitResponses == {resp \in ErrorResponses : resp.status_code = 429}

NextLimited ==
    \/ \E c \in Calls : Request(c.method, c.url, c.noauth, c.raw)
    \/ \E username \in Usernames, password \in Passwords : Login(username, password)
    \/ CanSend /\ \E resp \in LimitResponses : RequestLimitExceeded(resp)

SpecLimited == Init /\ [][NextLimited]_vars

----------------------------------------------------------------------------
(* The session of the client: every call, against a server that answers with
   a success or with one response of each kind of failure request() tells
   apart (401, 429, a gateway error, another error) *)

SessionResponses(url) ==
    SuccessResponses(url)
    \cup {resp \in ErrorResponses : /\ resp.status_code \in {401, 429, 500, 502}
                                    /\ resp.headers = NoHeaders}

NextSession ==
    \/ \E c \in Calls : Request(c.method, c.url, c.noauth, c.raw)
    \/ \E username \in Usernames, password \in Passwords : Login(username, password)
    \/ \E api_key \in ApiKeys \cup MalformedTokens : SetApiKey(api_key)
    \/ Logout
    \/ CanSend /\ \E resp \in SessionResponses(Top.url) : RequestSucceeds(resp)
    \/ CanSend /\ \E resp \in SessionResponses(Top.url) : RequestNotAuthenticated(resp)
    \/ CanSend /\ \E resp \in SessionResponses(Top.url) : RequestLimitExceeded(resp)
    \/ CanSend /\ \E resp \in SessionResponses(Top.url) : RequestDowntime(resp)
    \/ CanSend /\ \E resp \in SessionResponses(Top.url) : RequestFails(resp)

SpecSession == Init /\ [][NextSession]_vars

----------------------------------------------------------------------------
(* Two threads dispatching on one client. APIClient holds no lock: the
   statements of request(), logout(), login() and set_auth_token() run by one
   thread interleave with those run by the other, on the one auth_token and
   the one session.headers *)

Threads == {1, 2}

\* the token the client holds, which the server accepts no longer
StaleToken == TokPlain

\* the server answers 401 unless the request carries a token it issued
Accepted(hdrs) == \E token \in IssuedTokens : hdrs = Bearer(token)

\* a thread that has called request(): the statement it is at, the headers
\* its last request carried, the requests it sent, the 401 answers it got (and
\* how many of them for the stale token), the logins it posted, the token
\* login() holds, and the exception that ended its call
Thread(pc) ==
    [pc |-> pc, sent |-> NoHeaders, sends |-> 0, rejected |-> 0, stale |-> 0,
     logins |-> 0, token |-> NoToken, exc |-> None]

At(t, pc) == threads[t].pc = pc

ThreadRaises(t, exc) == threads' = [threads EXCEPT ![t].pc = "done", ![t].exc = exc]

ThreadGoes(t, pc) == threads' = [threads EXCEPT ![t].pc = pc]

\* the client was made with a password, or with a key, and the token it holds
\* has expired on the server since; both threads call request()
InitThreads ==
    /\ \E password \in {None} \cup Passwords :
          options = [api_key |-> IF password = None THEN StaleToken ELSE NoToken,
                     username |-> IF password = None THEN None ELSE "alice",
                     password |-> password,
                     obey_ratelimiter |-> TRUE, retry_on_downtime |-> FALSE,
                     max_downtime_retries |-> MaxN,
                     downtime_timeout |-> DefaultDowntimeTimeout,
                     retry_idempotent |-> TRUE]
    /\ auth_token = StaleToken
    /\ headers = Bearer(StaleToken)
    /\ stack = <<>>
    /\ log = <<>>
    /\ outcome = <<"none">>
    /\ call = NoCall
    /\ NoHTTPError
    /\ NoElement
    /\ NoListener
    /\ threads = [t \in Threads |-> Thread("check")]

\* request(): "if not noauth and self.auth_token is None: raise"
CheckAuthenticated(t) ==
    /\ At(t, "check")
    /\ IF auth_token = NoToken
       THEN ThreadRaises(t, "NotAuthenticatedError")
       ELSE ThreadGoes(t, "send")
    /\ UNCHANGED <<clientvars, errorvars, elementvars, listenvars>>

\* request(): perform_request sends with the headers the session has now; the
\* try block returns, or NotAuthenticatedError is caught
PerformRequest(t) ==
    /\ At(t, "send")
    /\ threads[t].sends < MaxSends
    /\ threads' =
          [threads EXCEPT
              ![t].sent = headers,
              ![t].sends = @ + 1,
              ![t].rejected = IF Accepted(headers) THEN @ ELSE @ + 1,
              ![t].stale = IF headers = Bearer(StaleToken) THEN @ + 1 ELSE @,
              ![t].pc = IF Accepted(headers) THEN "done" ELSE "logout"]
    /\ UNCHANGED <<clientvars, errorvars, elementvars, listenvars>>

\* a handler that leaves the session alone when another thread has replaced
\* the token since the request was sent
ClearToken_Guarded(t) ==
    /\ At(t, "logout")
    /\ IF headers # threads[t].sent
       THEN /\ ThreadGoes(t, "send")
            /\ UNCHANGED auth_token
       ELSE /\ auth_token' = NoToken
            /\ ThreadGoes(t, "pop")
    /\ UNCHANGED <<options, headers, stack, log, outcome, call>>
    /\ UNCHANGED <<errorvars, elementvars, listenvars>>

\* except NotAuthenticatedError: logout(): "self.auth_token = None"
ClearToken(t) ==
    /\ At(t, "logout")
    /\ auth_token' = NoToken
    /\ ThreadGoes(t, "pop")
    /\ UNCHANGED <<options, headers, stack, log, outcome, call>>
    /\ UNCHANGED <<errorvars, elementvars, listenvars>>

\* logout(): self.session.headers.pop("Authorization")
PopAuthorization(t) ==
    /\ At(t, "pop")
    /\ IF HasAuthorization(headers)
       THEN /\ headers' = NoHeaders
            /\ ThreadGoes(t, "password")
       ELSE /\ ThreadRaises(t, "KeyError")
            /\ UNCHANGED headers
    /\ UNCHANGED <<options, auth_token, stack, log, outcome, call>>
    /\ UNCHANGED <<errorvars, elementvars, listenvars>>

\* "if self.options.password is None: raise"
CheckPassword(t) ==
    /\ At(t, "password")
    /\ IF options.password = None
       THEN ThreadRaises(t, "NotAuthenticatedError")
       ELSE ThreadGoes(t, "login")
    /\ UNCHANGED <<clientvars, errorvars, elementvars, listenvars>>

\* login(): token = self.post("auth/login", ..., noauth=True)["token"], the
\* server accepting the credentials the client remembers
PostLogin(t) ==
    /\ At(t, "login")
    /\ \E token \in IssuedTokens :
          threads' = [threads EXCEPT ![t].pc = "token", ![t].logins = @ + 1,
                                     ![t].token = token]
    /\ UNCHANGED <<clientvars, errorvars, elementvars, listenvars>>

\* set_auth_token(): self.auth_token = JWTAuthToken(auth_key)
AssignToken(t) ==
    /\ At(t, "token")
    /\ auth_token' = threads[t].token
    /\ ThreadGoes(t, "header")
    /\ UNCHANGED <<options, headers, stack, log, outcome, call>>
    /\ UNCHANGED <<errorvars, elementvars, listenvars>>

\* set_auth_token(): the header is made of self.auth_token.value as it is now
UpdateHeader(t) ==
    /\ At(t, "header")
    /\ IF auth_token = NoToken
       THEN /\ ThreadRaises(t, "AttributeError")
            /\ UNCHANGED headers
       ELSE /\ headers' = Bearer(auth_token)
            /\ ThreadGoes(t, "store")
    /\ UNCHANGED <<options, auth_token, stack, log, outcome, call>>
    /\ UNCHANGED <<errorvars, elementvars, listenvars>>

\* login(): store credentials in API options; request() then loops
StoreAndRetry(t) ==
    /\ At(t, "store")
    /\ options' = StoreCredentials(options, options.username, options.password)
    /\ ThreadGoes(t, "send")
    /\ UNCHANGED <<auth_token, headers, stack, log, outcome, call>>
    /\ UNCHANGED <<errorvars, elementvars, listenvars>>

NextThreads ==
    \E t \in Threads :
        \/ CheckAuthenticated(t)
        \/ PerformRequest(t)
        \/ ClearToken(t)
        \/ PopAuthorization(t)
        \/ CheckPassword(t)
        \/ PostLogin(t)
        \/ AssignToken(t)
        \/ UpdateHeader(t)
        \/ StoreAndRetry(t)

SpecThreads == InitThreads /\ [][NextThreads]_vars

----------------------------------------------------------------------------
(* map_http_error applied to the HTTP errors a server can answer with *)

\* the status codes Response.raise_for_status raises HTTPError for
ErrorStatusCodes ==
    {400, 401, 402, 403, 404, 405, 409, 410, 422, 429, 500, 501, 502, 503, 504}

\* the phrases an error message is made of
MessagePhrases ==
    {"Forbidden", "Invalid login or password", "Maintenance underway",
     "User registration is pending", "User account is disabled",
     "Object not found", "The requested URL was not found on the server"}

\* the messages get_http_error_message returns: none, one or two phrases
ErrorMessages ==
    {<<>>} \cup {<<a>> : a \in MessagePhrases}
           \cup {<<a, b>> : a \in MessagePhrases, b \in MessagePhrases}

\* a client made without credentials, on which no call is made
ClientAtRest ==
    /\ options = [api_key |-> NoToken, username |-> None, password |-> None,
                  obey_ratelimiter |-> TRUE, retry_on_downtime |-> FALSE,
                  max_downtime_retries |-> MaxN,
                  downtime_timeout |-> DefaultDowntimeTimeout,
                  retry_idempotent |-> TRUE]
    /\ auth_token = NoToken
    /\ headers = NoHeaders
    /\ stack = <<>>
    /\ log = <<>>
    /\ outcome = <<"none">>
    /\ call = NoCall

InitMap ==
    /\ ClientAtRest
    /\ \E status_code \in ErrorStatusCodes, message \in ErrorMessages :
          http_error = [status_code |-> status_code, message |-> message]
    /\ mapped = "none"
    /\ NoElement
    /\ NoListener
    /\ NoThreads

\* mapped = map_http_error(http_error)
MapHttpError ==
    /\ mapped = "none"
    /\ mapped' = map_http_error(http_error.status_code, http_error.message)
    /\ UNCHANGED <<http_error, clientvars, elementvars, listenvars, threads>>

NextMap == MapHttpError

SpecMap == InitMap /\ [][NextMap]_vars

----------------------------------------------------------------------------
(* The operations on an entity *)

\* the classes of the entities at hand
ElementClasses == {"MWDBBlob"}

\* the values served to a read: the tags, which the canonical payload and
\* the tag endpoint both serve, differ from one fetch to the next
Served(field) == IF field \in CanonicalKeys THEN Values ELSE {"v1"}

\* the most calls an operation makes: none for the fields that are never
\* loaded, MaxCalls for the version-dependent methods, one for the others
CallsOf(name) ==
    IF name \in {"id", "object_type", "flush"} THEN 0
    ELSE IF name \in {"attributes", "analyses", "add_attribute", "reanalyze",
                      "assign_analysis"}
    THEN MaxCalls
    ELSE 1

\* the arguments of a mutator
Arguments(name) ==
    IF name = "add_attribute"
    THEN {<<key, value_type>> : key \in AttributeKeys, value_type \in ValueTypes}
    ELSE {<<>>}

\* the payloads entities are made of: the identifier alone (the blobs of
\* MWDBConfig._map_blobs), identifier and type, or an entry of a listing
ElementData(c) ==
    {Dict1("id", Id),
     [k \in {"id", "type"} |-> IF k = "id" THEN Id ELSE TYPE(c)],
     [k \in {"id", "type", "tags", "upload_time"} |->
        IF k = "id" THEN Id ELSE IF k = "type" THEN TYPE(c) ELSE "v1"]}

InitElement ==
    /\ ClientAtRest
    /\ NoHTTPError
    /\ NoListener
    /\ NoThreads
    /\ cls \in ElementClasses
    /\ data \in ElementData(cls)
    /\ server_version \in ServerVersions
    /\ server_metadata = None
    /\ extras = {}
    /\ content = None
    /\ requests = <<>>
    /\ responses = <<>>
    /\ oper = [name |-> "none", arg |-> <<>>]
    /\ result = <<"none">>

\* the operation ends: what it leaves in the entity and in the client
Finish(name, arg, r) ==
    /\ data' = r.data
    /\ content' = r.content
    /\ server_metadata' = r.meta
    /\ requests' = r.reqs
    /\ responses' = r.resps
    /\ result' = IF r.exc # None THEN <<"raise", r.exc>> ELSE <<"return", r.ret>>
    /\ oper' = [name |-> name, arg |-> arg]
    /\ UNCHANGED <<cls, server_version, extras, clientvars, errorvars, listenvars, threads>>

\* a read of a declared field
Read(field, v, fault) ==
    /\ cls # "none"
    /\ Finish("read", <<field>>, ReadField(Start, field, v, fault))

\* a call of a mutator
Mutate(name, args, fault) ==
    /\ cls # "none"
    /\ Finish(name, args, CallMutator(Start, name, args, fault))

Flush ==
    /\ cls # "none"
    /\ Finish("flush", <<>>, flush(Start))

Remove(fault) ==
    /\ cls # "none"
    /\ Finish("remove", <<>>, remove(Start, fault))

\* the user reads APIClient.server_version
ServerVersion(fault) ==
    /\ cls # "none"
    /\ Finish("server_version", <<>>, GetServerVersion(Start, fault))

NextElement ==
    \/ \E field \in Fields : \E v \in Served(field), fault \in Faults(CallsOf(field)) :
          Read(field, v, fault)
    \/ \E name \in Mutators : \E args \in Arguments(name), fault \in Faults(CallsOf(name)) :
          Mutate(name, args, fault)
    \/ Flush
    \/ \E fault \in Faults(1) : Remove(fault)
    \/ \E fault \in Faults(1) : ServerVersion(fault)

SpecElement == InitElement /\ [][NextElement]_vars

----------------------------------------------------------------------------
(* The reads of an entity, those of its parents included *)

\* the fields whose accessor fetches the canonical detail payload
CanonicalFields == {"upload_time", "parents", "children"}

\* the mutators that evict a field of the canonical payload or the tags
ReadMutators == {"add_child", "add_tag"}

NextRead ==
    \/ \E field \in Fields \cup CanonicalFields :
          \E v \in Served(field), fault \in Faults(CallsOf(field)) : Read(field, v, fault)
    \/ \E name \in ReadMutators : \E fault \in Faults(CallsOf(name)) :
          Mutate(name, <<>>, fault)
    \/ Flush
    \/ \E fault \in Faults(1) : ServerVersion(fault)

SpecRead == InitElement /\ [][NextRead]_vars

----------------------------------------------------------------------------
(* The contents of a file *)

\* the versions of the servers a file is downloaded from
FileServerVersions == {"1.9.0", "2.0.0", "2.2.0"}

\* a download makes one call more than the other version-dependent methods
DownloadFaults == Faults(MaxCalls + 1)

InitFile ==
    /\ ClientAtRest
    /\ NoHTTPError
    /\ NoListener
    /\ NoThreads
    /\ cls = "MWDBFile"
    /\ data \in ElementData(cls)
    /\ server_version \in FileServerVersions
    /\ server_metadata = None
    /\ extras = {}
    /\ content = None
    /\ requests = <<>>
    /\ responses = <<>>
    /\ oper = [name |-> "none", arg |-> <<>>]
    /\ result = <<"none">>

\* a read of MWDBFile.content
Content(token, fault) ==
    /\ cls = "MWDBFile"
    /\ Finish("content", <<>>, get_content(Start, token, fault))

\* a call of MWDBFile.download
Download(token, fault) ==
    /\ cls = "MWDBFile"
    /\ Finish("download", <<>>, download(Start, token, fault))

NextFile ==
    \/ \E token \in DownloadTokens, fault \in DownloadFaults : Content(token, fault)
    \/ \E token \in DownloadTokens, fault \in DownloadFaults : Download(token, fault)
    \/ Flush
    \/ \E fault \in Faults(1) : ServerVersion(fault)

SpecFile == InitFile /\ [][NextFile]_vars

----------------------------------------------------------------------------
(* The comments of an entity *)

\* the identifiers of the comments
CommentIds == {"c1", "c2"}

\* the lists of comments a server serves
CommentLists == {<<>>, <<"c1">>, <<"c1", "c2">>}

\* a call of delete() on a comment of the entity
DeleteComment(comment, fault) ==
    /\ cls # "none"
    /\ Finish("delete_comment", <<comment>>, delete_comment(Start, comment, fault))

NextComment ==
    \/ \E v \in CommentLists, fault \in Faults(1) : Read("comments", v, fault)
    \/ \E comment \in CommentIds, fault \in Faults(1) : DeleteComment(comment, fault)
    \/ \E fault \in Faults(1) : Mutate("add_comment", <<>>, fault)
    \/ Flush

SpecComment == InitElement /\ [][NextComment]_vars

----------------------------------------------------------------------------
(* The sub-resources of an entity, on a server that adds members to the JSON
   objects it answers with *)

\* the sub-resources and the key each of them is cached under
SubResources == {"tag", "comment", "share", "attribute", "meta", "karton"}

SubKey(sub) ==
    CASE sub = "tag" -> "tags"
      [] sub = "comment" -> "comments"
      [] sub = "share" -> "shares"
      [] sub = "attribute" -> "attributes"
      [] sub = "meta" -> "metakeys"
      [] sub = "karton" -> "analyses"

\* the members a server may add to the JSON object of a sub-resource
ExtraKeys == {"tags", "children"}

InitSub ==
    /\ ClientAtRest
    /\ NoHTTPError
    /\ NoListener
    /\ NoThreads
    /\ cls \in ElementClasses
    /\ data \in ElementData(cls)
    /\ server_version \in ServerVersions
    /\ server_metadata = None
    /\ extras \in SUBSET ExtraKeys
    /\ content = None
    /\ requests = <<>>
    /\ responses = <<>>
    /\ oper = [name |-> "none", arg |-> <<>>]
    /\ result = <<"none">>

NextSub ==
    \/ \E field \in {SubKey(sub) : sub \in SubResources} \cup CanonicalFields :
          \E v \in Served(field), fault \in Faults(CallsOf(field)) : Read(field, v, fault)
    \/ Flush

SpecSub == InitSub /\ [][NextSub]_vars

----------------------------------------------------------------------------
(* The version-dependent methods of an entity *)

\* the errors a call of a version-dependent method can end with: the object
\* is gone, or the server has no such endpoint (a plugin that is not enabled)
GatedErrors == {"ObjectNotFoundError", "EndpointNotFoundError"}

GatedFaults(n) == {NoFault} \cup {[at |-> k, error |-> e] : k \in 1..n, e \in GatedErrors}

\* the fields read through a version-dependent method or its fallback
GatedFields == {"attributes", "metakeys", "analyses"}

\* the mutators decorated with APIClient.requires
GatedMutators == {"add_attribute", "reanalyze", "assign_analysis"}

NextGated ==
    \/ \E field \in GatedFields : \E v \in Served(field), fault \in GatedFaults(CallsOf(field)) :
          Read(field, v, fault)
    \/ \E name \in GatedMutators : \E args \in Arguments(name), fault \in GatedFaults(CallsOf(name)) :
          Mutate(name, args, fault)
    \/ Flush
    \/ \E fault \in GatedFaults(1) : ServerVersion(fault)

SpecGated == InitElement /\ [][NextGated]_vars

----------------------------------------------------------------------------
(* MWDBObject.create applied to the payloads of a server *)

\* the values of the "type" member of a payload: those of the three classes,
\* that of the abstract MWDBObject and one no class has
Discriminants == {"file", "static_config", "text_blob", "object", "unknown"}

\* the identifiers of the payloads
PayloadIds == {"id1", "id2"}

\* the members a payload may hold besides id and type
PayloadKeys == CanonicalKeys

\* the payload with the identifier, the type (None: no "type" member) and the
\* other members given
Payload(id, type, keys) ==
    [k \in {"id"} \cup (IF type = None THEN {} ELSE {"type"}) \cup keys |->
        IF k = "id" THEN id ELSE IF k = "type" THEN type ELSE "v1"]

Payloads ==
    {Payload(id, type, keys) :
        id \in PayloadIds, type \in Discriminants \cup {None}, keys \in SUBSET PayloadKeys}

InitCreate ==
    /\ ClientAtRest
    /\ NoHTTPError
    /\ NoElement
    /\ NoListener
    /\ NoThreads

\* entity = MWDBObject.create(api, payload): MWDBElement.__init__ copies the
\* payload into the cache of the entity made
Create(payload) ==
    /\ cls' = create(payload).cls
    /\ data' = IF create(payload).exc = None THEN payload ELSE EmptyDict
    /\ content' = None
    /\ requests' = <<>>
    /\ responses' = <<>>
    /\ result' = IF create(payload).exc = None
                 THEN <<"return", create(payload).cls>>
                 ELSE <<"raise", create(payload).exc>>
    /\ oper' = [name |-> "create", arg |-> <<payload>>]
    /\ UNCHANGED <<server_version, server_metadata, extras, clientvars, errorvars, listenvars,
                   threads>>

NextCreate == \E payload \in Payloads : Create(payload)

SpecCreate == InitCreate /\ [][NextCreate]_vars

----------------------------------------------------------------------------
(* MWDB._listen: the generator behind listen_for_objects/files/configs/blobs *)

\* the most objects uploaded to the server
MaxObjects == 4

\* the objects are numbered in the order of their upload
UploadTime(object) == object

\* the forms of the last_object argument: None, an object of the type
\* listened for, an object of another type, an identifier, anything else
PivotForms == {"None", "object", "other_type", "str", "other"}

\* the object is on the server
Exists(object) == \E i \in 1..Len(repository) : repository[i] = object

\* the for loop of a round over the recent listing, from its entry i on: the
\* objects appended, and RuntimeError when it meets an object older than the
\* pivot
RECURSIVE Collect(_, _, _, _)
Collect(listing, i, pivot, acc) ==
    IF i > Len(listing) THEN [objects |-> acc, exc |-> None]
    ELSE IF pivot # NoObject /\ listing[i] = pivot THEN [objects |-> acc, exc |-> None]
    ELSE IF pivot # NoObject /\ UploadTime(listing[i]) < UploadTime(pivot)
    THEN [objects |-> acc, exc |-> "RuntimeError"]
    ELSE Collect(listing, i + 1, pivot, Append(acc, listing[i]))

\* a loop that yields the objects of a round as they were collected
Reversed_NewestFirst(objs, k) == objs[k]

\* objects[::-1], entry k
Reversed(objs, k) == objs[Len(objs) - k + 1]

InitListen ==
    /\ ClientAtRest
    /\ NoHTTPError
    /\ NoElement
    /\ NoListener
    /\ NoThreads

\* the generator is made and entered: _listen up to its while loop
Listen(form, object, block) ==
    /\ listener \in {<<"none">>, <<"done">>} \/ listener[1] = "raise"
    /\ blocking' = block
    /\ objects' = <<>>
    /\ position' = 0
    /\ yielded' = <<>>
    /\ \/ /\ form = "None"
          /\ last' = IF repository = <<>> THEN NoObject ELSE repository[1]
          /\ listener' = <<"poll">>
       \/ /\ form = "object"
          /\ object <= uploaded
          /\ last' = object
          /\ listener' = <<"poll">>
       \/ /\ form = "str"
          /\ last' = IF Exists(object) THEN object ELSE NoObject
          /\ listener' = IF Exists(object) THEN <<"poll">>
                         ELSE <<"raise", "ObjectNotFoundError">>
       \/ /\ form \in {"other_type", "other"}
          /\ last' = NoObject
          /\ listener' = <<"raise", "TypeError">>
    /\ UNCHANGED <<repository, uploaded, clientvars, errorvars, elementvars, threads>>

\* a round: the for loop over self._recent(object_type, query=query)
Poll ==
    /\ listener = <<"poll">>
    /\ IF Collect(repository, 1, last, <<>>).exc # None
       THEN /\ listener' = <<"raise", Collect(repository, 1, last, <<>>).exc>>
            /\ UNCHANGED objects
       ELSE /\ listener' = <<"yield">>
            /\ objects' = Collect(repository, 1, last, <<>>).objects
    /\ position' = 0
    /\ UNCHANGED <<repository, uploaded, blocking, last, yielded>>
    /\ UNCHANGED <<clientvars, errorvars, elementvars, threads>>

\* for obj in objects[::-1]: last = obj; yield obj
Yield ==
    /\ listener = <<"yield">>
    /\ position < Len(objects)
    /\ last' = Reversed(objects, position + 1)
    /\ yielded' = Append(yielded, Reversed(objects, position + 1))
    /\ position' = position + 1
    /\ UNCHANGED <<repository, uploaded, listener, blocking, objects>>
    /\ UNCHANGED <<clientvars, errorvars, elementvars, threads>>

\* the round is over: time.sleep(interval) and another round if blocking,
\* else break
EndRound ==
    /\ listener = <<"yield">>
    /\ position = Len(objects)
    /\ listener' = IF blocking THEN <<"poll">> ELSE <<"done">>
    /\ UNCHANGED <<repository, uploaded, blocking, last, objects, position, yielded>>
    /\ UNCHANGED <<clientvars, errorvars, elementvars, threads>>

\* somebody uploads an object: it is the first of the recent listing
Upload ==
    /\ uploaded < MaxObjects
    /\ uploaded' = uploaded + 1
    /\ repository' = <<uploaded + 1>> \o repository
    /\ UNCHANGED <<listener, blocking, last, objects, position, yielded>>
    /\ UNCHANGED <<clientvars, errorvars, elementvars, threads>>

\* somebody removes the object at entry i of the listing
Delete(i) ==
    /\ i \in 1..Len(repository)
    /\ repository' = SubSeq(repository, 1, i - 1) \o SubSeq(repository, i + 1, Len(repository))
    /\ UNCHANGED <<uploaded, listener, blocking, last, objects, position, yielded>>
    /\ UNCHANGED <<clientvars, errorvars, elementvars, threads>>

NextListen ==
    \/ \E form \in PivotForms, object \in 1..MaxObjects, block \in BOOLEAN :
          Listen(form, object, block)
    \/ Poll
    \/ Yield
    \/ EndRound
    \/ Upload
    \/ \E i \in 1..MaxObjects : Delete(i)

SpecListen == InitListen /\ [][NextListen]_vars

----------------------------------------------------------------------------
(* Properties of the retry loop *)

\* a dispatch (a request() made by the user, directly or through login())
\* has ended
Ended == Idle /\ call.op \in {"request", "login"} /\ outcome # <<"none">>

\* the indices of the HTTP requests in the log
SendIndices == {i \in 1..Len(log) : log[i].ev = "send"}

SleepIndices == {i \in 1..Len(log) : log[i].ev = "sleep"}

\* C1 as stated: a dispatch whose every attempt was answered with 502 or 504
\* raises GatewayError after exactly max_downtime_retries + 1 attempts.
C1_RetryBoundAsStated ==
    (/\ Ended
     /\ log # <<>>
     /\ \A i \in SendIndices : log[i].status \in {502, 504})
    => /\ outcome = <<"raise", "GatewayError">>
       /\ Cardinality(SendIndices) = call.options.max_downtime_retries + 1

\* C1 amended: a dispatch whose every attempt was answered with 502 or 504
\* raises GatewayError; when retry_on_downtime is set and the request is not a
\* POST with retry_idempotent unset it does so after exactly
\* max_downtime_retries retries (max_downtime_retries + 1 attempts, a sleep of
\* downtime_timeout before each retry), and otherwise after its first attempt.
C1_RetryBound ==
    (/\ Ended
     /\ log # <<>>
     /\ \A i \in SendIndices : log[i].status \in {502, 504})
    => /\ outcome = <<"raise", "GatewayError">>
       /\ IF /\ call.options.retry_on_downtime
             /\ (call.options.retry_idempotent \/ call.method # "post")
          THEN /\ Cardinality(SendIndices) = call.options.max_downtime_retries + 1
               /\ Cardinality(SleepIndices) = call.options.max_downtime_retries
          ELSE log = <<log[1]>>
       /\ \A i \in SleepIndices : log[i].secs = call.options.downtime_timeout

\* a dispatch answered with gateway errors only has used up a budget of at
\* least one retry
C1_Witness ==
    /\ Ended
    /\ call.options.retry_on_downtime
    /\ call.options.max_downtime_retries >= 1
    /\ \A i \in SendIndices : log[i].status \in {502, 504}
    /\ Cardinality(SendIndices) = call.options.max_downtime_retries + 1
    /\ outcome = <<"raise", "GatewayError">>

\* C2: a request() that requires authentication while no token is held ends
\* at once with NotAuthenticatedError: no HTTP request is sent, nothing
\* sleeps, and auth_token, the session headers and the options (the remembered
\* credentials among them) are what they were when it was called.
C2_NoTokenNoRequest ==
    (/\ call.op = "request"
     /\ ~call.noauth
     /\ call.auth_token = NoToken)
    => /\ Idle
       /\ outcome = <<"raise", "NotAuthenticatedError">>
       /\ log = <<>>
       /\ auth_token = call.auth_token
       /\ headers = call.headers
       /\ options = call.options

\* an authenticated request was refused on a client that has no token but
\* remembers a password
C2_Witness ==
    /\ call.op = "request"
    /\ ~call.noauth
    /\ call.auth_token = NoToken
    /\ call.options.password # None
    /\ outcome = <<"raise", "NotAuthenticatedError">>
    /\ log = <<>>

\* C3: a request() that requires authentication and is made with a token
\* whose payload carries an exp in the past ends with NotAuthenticatedError
\* before any HTTP request is sent.
C3_ExpiredTokenRejected ==
    (/\ call.op = "request"
     /\ ~call.noauth
     /\ call.auth_token # NoToken
     /\ "exp" \in DOMAIN JWTPayload(call.auth_token)
     /\ JWTPayload(call.auth_token).exp <= Now)
    => /\ log = <<>>
       /\ Idle => outcome = <<"raise", "NotAuthenticatedError">>

\* C4: when the client remembers a password and the first attempt of a
\* dispatch is answered with 401, request() logs in again (one POST to
\* auth/login with the remembered credentials, sent without a token), and
\* when that login succeeds it retries the original request once (same
\* method and URL, now with the new token) and returns the result of that
\* retry.
C4_ReloginThenRetry ==
    (/\ call.op \in {"request", "login"}
     /\ call.options.password # None
     /\ log # <<>>
     /\ log[1].status = 401)
    => /\ Len(log) = 1 =>
            /\ Len(stack) = 2
            /\ Top = LoginFrame(call.options.username, call.options.password)
            /\ outcome = <<"none">>
       /\ Len(log) >= 2 =>
            /\ log[2].ev = "send"
            /\ log[2].method = "post"
            /\ log[2].url = "auth/login"
            /\ log[2].auth = <<>>
       /\ (Len(log) >= 3 /\ log[2].status = 200 /\ log[2].body = "json") =>
            /\ log[3].ev = "send"
            /\ log[3].method = call.method
            /\ log[3].url = call.url
            /\ log[3].auth = <<"Bearer ">> \o TokFresh
            /\ (Ended /\ log[3].status = 200 /\ call.op = "request"
                      /\ (call.raw \/ log[3].body = "json")) =>
                 /\ Len(log) = 3
                 /\ outcome = <<"return", IF call.raw THEN "content" ELSE "json",
                                log[3].body>>

\* C5: when a dispatch is answered with 401 and no password is remembered,
\* the token is cleared, nothing is sent after the rejected request (no
\* login, no retry) and NotAuthenticatedError reaches the caller.
C5_NoPasswordReraises ==
    \A i \in SendIndices :
        (/\ call.op \in {"request", "login"}
         /\ call.options.password = None
         /\ log[i].status = 401)
        => /\ i = Len(log)
           /\ Idle
           /\ outcome = <<"raise", "NotAuthenticatedError">>
           /\ auth_token = NoToken
           /\ ~HasAuthorization(headers)

\* C6: with obey_ratelimiter set, every 429 response is followed by a sleep
\* of the seconds its Retry-After header gives (5 for "5"), or of 60 seconds
\* when it has no such header, and only after that sleep by the same request
\* again.
C6_RateLimitSleep ==
    options.obey_ratelimiter =>
        \A i \in SendIndices :
            log[i].status = 429 =>
                /\ i < Len(log)
                /\ log[i + 1].ev = "sleep"
                /\ "Retry-After" \notin DOMAIN log[i].headers => log[i + 1].secs = 60
                /\ ("Retry-After" \in DOMAIN log[i].headers
                       /\ log[i].headers["Retry-After"] = <<5>>) => log[i + 1].secs = 5
                /\ i + 1 = Len(log) =>
                       /\ ~Idle
                       /\ Top.method = log[i].method
                       /\ Top.url = log[i].url
                /\ i + 1 < Len(log) =>
                       /\ log[i + 2].ev = "send"
                       /\ log[i + 2].method = log[i].method
                       /\ log[i + 2].url = log[i].url

\* a 429 with Retry-After: 5 was slept on for 5 seconds and the request sent
\* again
C6_Witness ==
    /\ options.obey_ratelimiter
    /\ Len(log) >= 3
    /\ log[1].status = 429
    /\ "Retry-After" \in DOMAIN log[1].headers
    /\ log[2].secs = 5
    /\ log[3].ev = "send"

\* the log entry i records a connection error or a 502/504 response
DowntimeAt(i) == log[i].ev = "send" /\ log[i].status \in {0, 502, 504}

\* C7: with obey_ratelimiter unset a 429 response raises LimitExceededError,
\* and with retry_on_downtime unset a connection error raises ConnectionError
\* and a 502/504 response GatewayError; the failed attempt is the last thing
\* the dispatch does (no sleep, no further request).
C7_FlagsOff ==
    \A i \in SendIndices :
        /\ (~options.obey_ratelimiter /\ log[i].status = 429) =>
               /\ i = Len(log)
               /\ Idle
               /\ outcome = <<"raise", "LimitExceededError">>
        /\ (~options.retry_on_downtime /\ DowntimeAt(i)) =>
               /\ i = Len(log)
               /\ Idle
               /\ outcome = <<"raise", IF log[i].status = 0 THEN "ConnectionError"
                                       ELSE "GatewayError">>

\* a connection error ended a dispatch at its first attempt although a retry
\* budget was configured, because retry_on_downtime is off
C7_Witness ==
    /\ ~options.retry_on_downtime
    /\ options.max_downtime_retries >= 1
    /\ Ended
    /\ Len(log) = 1
    /\ log[1].status = 0
    /\ outcome = <<"raise", "ConnectionError">>

\* C8: with retry_on_downtime set, a downtime failure of a POST is re-raised
\* at once when retry_idempotent is unset, while a dispatch with another verb,
\* or any dispatch when retry_idempotent is set, that meets downtime failures
\* only is retried until max_downtime_retries retries are used up.
C8_IdempotentWrites ==
    options.retry_on_downtime =>
        /\ \A i \in SendIndices :
               (/\ DowntimeAt(i)
                /\ log[i].method = "post"
                /\ ~options.retry_idempotent)
               => /\ i = Len(log)
                  /\ Idle
                  /\ outcome[1] = "raise"
                  /\ outcome[2] \in {"ConnectionError", "GatewayError"}
        /\ (/\ Ended
            /\ log # <<>>
            /\ \A i \in SendIndices : DowntimeAt(i)
            /\ (options.retry_idempotent \/ call.method # "post"))
           => /\ Cardinality(SendIndices) = options.max_downtime_retries + 1
              /\ \A i \in SendIndices : log[i].method = call.method
              /\ outcome[1] = "raise"
              /\ outcome[2] \in {"ConnectionError", "GatewayError"}

\* a POST failed on downtime and was not sent again although retries were
\* configured
C8_Witness ==
    /\ options.retry_on_downtime
    /\ ~options.retry_idempotent
    /\ options.max_downtime_retries >= 1
    /\ Ended
    /\ call.op = "request"
    /\ call.method = "post"
    /\ Len(log) = 1
    /\ DowntimeAt(1)
    /\ outcome = <<"raise", "GatewayError">>

\* C9: a 400, 403, 404, 409 or other error response outside 401, 429, 502 and
\* 504 ends the dispatch with the typed error of its status: nothing is sent
\* or slept after it, and the token the attempt was made with is still held.
C9_PermanentErrors ==
    \A i \in SendIndices :
        log[i].status \in {400, 403, 404, 409, 500} =>
            /\ i = Len(log)
            /\ Idle
            /\ outcome[1] = "raise"
            /\ log[i].status = 400 => outcome[2] = "ValidationError"
            /\ log[i].status = 403 =>
                   outcome[2] \in {"InvalidCredentialsError", "MaintenanceUnderwayError",
                                   "UserPendingError", "UserDisabledError",
                                   "PermissionError"}
            /\ log[i].status = 404 =>
                   outcome[2] \in {"ObjectNotFoundError", "EndpointNotFoundError"}
            /\ log[i].status = 409 => outcome[2] = "TypeConflictError"
            /\ log[i].status = 500 => outcome[2] = "InternalError"
            /\ log[i].auth = IF auth_token = NoToken THEN <<>>
                             ELSE <<"Bearer ">> \o auth_token
            /\ i = 1 => (auth_token = call.auth_token /\ headers = call.headers)

\* a 500 ended a dispatch at its first attempt on a client with every retry
\* policy switched on
C9_Witness ==
    /\ options.retry_on_downtime
    /\ options.max_downtime_retries >= 1
    /\ options.retry_idempotent
    /\ options.obey_ratelimiter
    /\ options.password # None
    /\ auth_token # NoToken
    /\ Ended
    /\ Len(log) = 1
    /\ log[1].status = 500
    /\ outcome = <<"raise", "InternalError">>

\* C10: a successful response ends the request: with raw set the body is
\* returned as bytes whether or not it is JSON, with raw unset the parsed JSON
\* is returned, and a body that is not JSON raises BadResponseError; nothing
\* is sent or slept after it.
C10_SuccessValue ==
    \A i \in SendIndices :
        /\ (log[i].status = 200 /\ log[i].url # "auth/login") =>
               /\ i = Len(log)
               /\ Idle
               /\ outcome = IF call.raw THEN <<"return", "content", log[i].body>>
                            ELSE IF log[i].body = "json" THEN <<"return", "json", "json">>
                            ELSE <<"raise", "BadResponseError">>
        /\ (log[i].status = 200 /\ log[i].url = "auth/login" /\ log[i].body # "json") =>
               /\ i = Len(log)
               /\ Idle
               /\ outcome = <<"raise", "BadResponseError">>

\* a body that is not JSON raised BadResponseError at the first attempt of a
\* request on a client with every retry policy switched on
C10_Witness ==
    /\ options.retry_on_downtime
    /\ options.max_downtime_retries >= 1
    /\ options.obey_ratelimiter
    /\ Ended
    /\ call.op = "request"
    /\ ~call.raw
    /\ Len(log) = 1
    /\ log[1].status = 200
    /\ log[1].body = "notjson"
    /\ outcome = <<"raise", "BadResponseError">>

----------------------------------------------------------------------------
(* Properties of the error mapping *)

\* the message of the error holds the phrase
HasPhrase(phrase) == \E i \in 1..Len(http_error.message) : http_error.message[i] = phrase

\* C11: map_http_error gives every (status code, error message) exactly one
\* error class: 400 ValidationError; 401 NotAuthenticatedError; 403
\* InvalidCredentialsError, MaintenanceUnderwayError, UserPendingError or
\* UserDisabledError by the first phrase, in that order, the message holds, and
\* PermissionError when it holds none; 404 EndpointNotFoundError when the message
\* says the requested URL was not found and ObjectNotFoundError otherwise; 409
\* TypeConflictError; 429 LimitExceededError; 502 and 504 GatewayError; any
\* other status InternalError.
C11_ErrorMapping ==
    mapped # "none" =>
        LET status == http_error.status_code IN
        /\ status = 400 => mapped = "ValidationError"
        /\ status = 401 => mapped = "NotAuthenticatedError"
        /\ status = 403 /\ HasPhrase("Invalid login or password")
             => mapped = "InvalidCredentialsError"
        /\ status = 403 /\ ~HasPhrase("Invalid login or password")
                        /\ HasPhrase("Maintenance underway")
             => mapped = "MaintenanceUnderwayError"
        /\ status = 403 /\ ~HasPhrase("Invalid login or password")
                        /\ ~HasPhrase("Maintenance underway")
                        /\ HasPhrase("User registration is pending")
             => mapped = "UserPendingError"
        /\ status = 403 /\ ~HasPhrase("Invalid login or password")
                        /\ ~HasPhrase("Maintenance underway")
                        /\ ~HasPhrase("User registration is pending")
                        /\ HasPhrase("User account is disabled")
             => mapped = "UserDisabledError"
        /\ status = 403 /\ ~HasPhrase("Invalid login or password")
                        /\ ~HasPhrase("Maintenance underway")
                        /\ ~HasPhrase("User registration is pending")
                        /\ ~HasPhrase("User account is disabled")
             => mapped = "PermissionError"
        /\ status = 404 /\ HasPhrase("The requested URL was not found on the server")
             => mapped = "EndpointNotFoundError"
        /\ status = 404 /\ ~HasPhrase("The requested URL was not found on the server")
             => mapped = "ObjectNotFoundError"
        /\ status = 409 => mapped = "TypeConflictError"
        /\ status = 429 => mapped = "LimitExceededError"
        /\ status \in {502, 504} => mapped = "GatewayError"
        /\ status \notin {400, 401, 403, 404, 409, 429, 502, 504}
             => mapped = "InternalError"

\* a 504 was classified, and so was a 403 whose message holds two of the
\* phrases in the opposite order to the order of the tests
C11_Witness ==
    /\ mapped # "none"
    /\ \/ http_error.status_code = 504
       \/ /\ http_error.status_code = 403
          /\ http_error.message = <<"User account is disabled", "Maintenance underway">>

----------------------------------------------------------------------------
(* Properties of the session operations *)

\* login(username, password) made by the user has returned
LoggedIn == Idle /\ call.op = "login" /\ outcome = <<"return", None>>

\* C12 as stated: a login that succeeds has sent exactly one request, the
\* POST of auth/login, and the client then holds the token that request
\* returned and the username and password login was given.
C12_LoginAsStated ==
    LoggedIn =>
        /\ Len(log) = 1
        /\ log[1].ev = "send" /\ log[1].method = "post" /\ log[1].url = "auth/login"
        /\ auth_token = log[1].token
        /\ options.username = call.args[1]
        /\ options.password = call.args[2]

\* C12 amended: a login that succeeds has sent POSTs of auth/login only, the
\* last of them answered with 200 and exactly one when the first is answered
\* with 200 (the others are the retries and re-logins of the retry policy);
\* the client then holds the token the last one returned, sends it as its
\* Authorization header, and remembers the username and password login was
\* given, the rest of its options unchanged.
C12_Login ==
    LoggedIn =>
        /\ log # <<>>
        /\ \A i \in SendIndices : log[i].method = "post" /\ log[i].url = "auth/login"
        /\ log[Len(log)].ev = "send" /\ log[Len(log)].status = 200
        /\ log[1].status = 200 => Len(log) = 1
        /\ auth_token = log[Len(log)].token
        /\ auth_token # NoToken
        /\ headers = Bearer(auth_token)
        /\ options = [call.options EXCEPT !.username = call.args[1],
                                          !.password = call.args[2]]

\* a login with one request, on a client that held another token and
\* remembered no password
C12_Witness ==
    /\ LoggedIn
    /\ Len(log) = 1
    /\ call.options.password = None
    /\ call.auth_token \notin {NoToken, auth_token}

\* set_api_key(api_key) has been called
KeySet == Idle /\ call.op = "set_api_key"

\* C13: set_api_key with a token that has not exactly three segments, or
\* whose header or payload does not decode, raises InvalidCredentialsError,
\* sends nothing and leaves the token held, the Authorization header and the
\* options as they were; a well-formed token becomes the token held and the
\* Authorization header, and nothing is sent either.
C13_TokenStructure ==
    KeySet =>
        /\ log = <<>>
        /\ IF \/ Len(call.args) # 3
              \/ call.args[1] = "junk"
              \/ call.args[2] = "junk"
           THEN /\ outcome = <<"raise", "InvalidCredentialsError">>
                /\ auth_token = call.auth_token
                /\ headers = call.headers
                /\ options = call.options
           ELSE /\ outcome = <<"return", None>>
                /\ auth_token = call.args
                /\ headers = Bearer(call.args)

\* a token of four segments was given to a client that holds a token
C13_Witness ==
    /\ KeySet
    /\ Len(call.args) = 4
    /\ call.auth_token # NoToken

\* C14: logout drops the token held and its Authorization header and leaves
\* the options, the remembered username and password among them, as they
\* were; while no token is held a request that requires authentication
\* raises NotAuthenticatedError without sending anything, and a client without
\* a token holds one again only through login or set_api_key (or through the
\* re-login of a dispatch that began with a token held).
C14_Logout ==
    [][/\ (Idle /\ Idle' /\ call'.op = "logout")
            => /\ auth_token' = NoToken
               /\ headers' = NoHeaders
               /\ options' = options
       /\ (Idle /\ auth_token = NoToken /\ call'.op = "request" /\ ~call'.noauth)
            => /\ outcome' = <<"raise", "NotAuthenticatedError">>
               /\ log' = <<>>
               /\ Idle'
               /\ auth_token' = NoToken
       /\ (auth_token = NoToken /\ auth_token' # NoToken)
            => \/ call'.op \in {"login", "set_api_key"}
               \/ call'.auth_token # NoToken]_vars

\* logout was called on a client that held a token and remembers a password
C14_Witness ==
    /\ Idle
    /\ call.op = "logout"
    /\ call.auth_token # NoToken
    /\ options.password # None
    /\ auth_token = NoToken

----------------------------------------------------------------------------
(* Properties of the cache of an entity *)

\* the step is a read of the field
ReadOf(field) == oper'.name = "read" /\ oper'.arg = <<field>>

\* the last operation returned
Returned == result[1] = "return"

\* C15 as stated: when a field is read twice in a row (the first read
\* returning) the two reads make at most one request in total, and the
\* second makes none.
C15_LazyLoadAsStated ==
    [][\A field \in Fields :
          (oper.name = "read" /\ oper.arg = <<field>> /\ Returned /\ ReadOf(field))
              => /\ Len(requests) + Len(requests') <= 1
                 /\ requests' = <<>>]_vars

\* C15 amended: when a field is read twice in a row (the first read
\* returning) the second read makes no request, returns the same value and
\* leaves the cache as it was; the first made at most one request, unless it
\* is the read of attributes that found the attribute endpoint missing,
\* fetched the server version and fell back to the metakeys, fetched from
\* their endpoint unless they were cached.
C15_LazyLoad ==
    [][\A field \in Fields :
          (oper.name = "read" /\ oper.arg = <<field>> /\ Returned /\ ReadOf(field))
              => /\ requests' = <<>>
                 /\ result' = result
                 /\ data' = data
                 /\ \/ Len(requests) <= 1
                    \/ /\ field = "attributes"
                       /\ Len(requests) \in {2, 3}
                       /\ requests[1] = [method |-> "get", url |-> <<"object", "id1", "attribute">>]
                       /\ requests[2] = [method |-> "get", url |-> <<"server">>]
                       /\ Len(requests) = 3 =>
                            requests[3] = [method |-> "get", url |-> <<"object", "id1", "meta">>]]_vars

\* a read of comments, which no payload an entity is made of holds, was
\* served from the cache
C15_Witness ==
    /\ oper.name = "read"
    /\ oper.arg = <<"comments">>
    /\ requests = <<>>
    /\ Returned

\* the keys a fetch of the URL puts in the cache: those of the response, or
\* the one key its mapper wraps the response in
FetchedKeys(url) ==
    IF url = <<"blob", "id1">> THEN {"id", "type"} \cup CanonicalKeys
    ELSE IF url = <<"object", "id1", "tag">> THEN {"tags"}
    ELSE IF url = <<"object", "id1", "comment">> THEN {"comments"}
    ELSE IF url = <<"object", "id1", "share">> THEN {"shares"}
    ELSE IF url = <<"object", "id1", "attribute">> THEN {"attributes"}
    ELSE IF url = <<"object", "id1", "meta">> THEN {"metakeys"}
    ELSE IF url = <<"object", "id1", "karton">> THEN {"analyses"}
    ELSE {}

\* the keys of the responses the step has fetched
Fetched == UNION {FetchedKeys(requests'[i].url) : i \in 1..Len(requests')}

\* C16: a read changes the cache only at the keys of the responses it has
\* fetched: every key cached before and absent from them is cached afterwards
\* with the same value, and every key it adds is one of theirs.
C16_MergeNotReplace ==
    [][oper'.name = "read" =>
          /\ \A key \in DOMAIN data \ Fetched : key \in DOMAIN data' /\ data'[key] = data[key]
          /\ DOMAIN data' \ DOMAIN data \subseteq Fetched]_vars

\* the canonical payload was fetched into a cache that holds comments and
\* older tags
C16_Witness ==
    /\ oper.name = "read"
    /\ oper.arg = <<"children">>
    /\ Len(requests) = 1
    /\ Returned
    /\ "comments" \in DOMAIN data
    /\ data["tags"] = "v2"

\* the fields a mutator evicts
Evicted(name) ==
    CASE name \in {"add_tag", "remove_tag"} -> {"tags"}
      [] name = "add_comment" -> {"comments"}
      [] name = "add_child" -> {"children"}
      [] name = "share_with" -> {"shares"}
      [] name = "add_attribute" -> {"attributes", "metakeys"}
      [] name \in {"reanalyze", "assign_analysis"} -> {"analyses"}

\* the field is cached: its key is in the cache (the attributes of a server
\* known to be older than 2.6.0 are its metakeys)
Cached(field) ==
    CASE field = "object_type" -> "type" \in DOMAIN data
      [] field = "attributes" ->
            \/ "attributes" \in DOMAIN data
            \/ server_metadata \in {"1.9.0", "2.2.0"} /\ "metakeys" \in DOMAIN data
      [] OTHER -> field \in DOMAIN data

\* C17: a mutator that returns evicts exactly its fields and leaves the rest
\* of the cache as it was; the read that follows it makes exactly one
\* request, a GET, when it reads an evicted field, and none when it reads
\* another field that is cached.
C17_Eviction ==
    [][/\ (oper'.name \in Mutators /\ result'[1] = "return")
            => /\ DOMAIN data' = DOMAIN data \ Evicted(oper'.name)
               /\ \A key \in DOMAIN data' : data'[key] = data[key]
       /\ (oper.name \in Mutators /\ Returned /\ oper'.name = "read")
            => /\ oper'.arg[1] \in Evicted(oper.name)
                    => Len(requests') = 1 /\ requests'[1].method = "get"
               /\ (oper'.arg[1] \notin Evicted(oper.name) /\ Cached(oper'.arg[1]))
                    => requests' = <<>>]_vars

\* add_tag returned on an entity whose tags and comments were cached
C17_Witness ==
    /\ oper.name = "add_tag"
    /\ Returned
    /\ "tags" \notin DOMAIN data
    /\ {"comments", "children", "upload_time"} \subseteq DOMAIN data

\* the write of a mutator: its method and its endpoint (add_attribute writes
\* to the attribute endpoint or to the legacy metakey endpoint)
WriteOf(name) ==
    CASE name = "add_tag" -> {[method |-> "put", url |-> <<"object", "id1", "tag">>]}
      [] name = "remove_tag" -> {[method |-> "delete", url |-> <<"object", "id1", "tag">>]}
      [] name = "add_comment" -> {[method |-> "post", url |-> <<"object", "id1", "comment">>]}
      [] name = "share_with" -> {[method |-> "put", url |-> <<"object", "id1", "share">>]}
      [] name = "add_child" -> {[method |-> "put", url |-> <<"object", "id1", "child", "id2">>]}
      [] name = "reanalyze" -> {[method |-> "post", url |-> <<"object", "id1", "karton">>]}
      [] name = "add_attribute" ->
            {[method |-> "post", url |-> <<"object", "id1", "attribute">>],
             [method |-> "post", url |-> <<"object", "id1", "meta">>]}

\* one of the mutators add_tag, remove_tag, add_comment, add_attribute,
\* share_with, add_child and reanalyze has returned
Mutated == oper.name \in Mutators \ {"assign_analysis"} /\ Returned

\* C18 as stated: a mutator that returns has made exactly one call, the
\* write to its endpoint.
C18_OneWriteAsStated ==
    Mutated => Len(requests) = 1 /\ requests[1] \in WriteOf(oper.name)

\* C18 amended: a mutator that returns has ended with the write to its
\* endpoint and has fetched no field of the entity; that write is its only
\* call, unless it is the add_attribute that found the attribute endpoint
\* missing, fetched the server version and wrote to the metakey endpoint.
C18_OneWrite ==
    Mutated =>
        /\ requests # <<>>
        /\ requests[Len(requests)] \in WriteOf(oper.name)
        /\ \A i \in 1..Len(requests) :
              requests[i].method = "get" => requests[i].url = <<"server">>
        /\ \/ Len(requests) = 1
           \/ /\ oper.name = "add_attribute"
              /\ requests = <<[method |-> "post", url |-> <<"object", "id1", "attribute">>],
                              [method |-> "get", url |-> <<"server">>],
                              [method |-> "post", url |-> <<"object", "id1", "meta">>]>>

\* add_tag has returned after its one write, its tags evicted
C18_Witness ==
    /\ oper.name = "add_tag"
    /\ Returned
    /\ Len(requests) = 1
    /\ "tags" \notin DOMAIN data
    /\ "upload_time" \in DOMAIN data

\* the cache reduced to the identity and the type discriminant it holds
Flushed(d) == [key \in DOMAIN d \cap {"id", "type"} |-> d[key]]

\* C19: flush makes no request and returns, leaving in the cache the identity
\* and the type discriminant with the values they had and nothing else,
\* whatever was cached before; a second flush changes nothing.
C19_Flush ==
    [][oper'.name = "flush" =>
          /\ requests' = <<>>
          /\ result' = <<"return", None>>
          /\ data' = Flushed(data)
          /\ Flushed(data') = data']_vars

\* C20: remove makes exactly one request, the DELETE of the object; when
\* that request fails its error is raised and the cache is as it was, and
\* when it succeeds the cache is flushed.
C20_Remove ==
    [][oper'.name = "remove" =>
          /\ requests' = <<[method |-> "delete", url |-> <<"object", "id1">>]>>
          /\ IF result' = <<"raise", "ObjectNotFoundError">>
             THEN data' = data
             ELSE data' = Flushed(data)]_vars

----------------------------------------------------------------------------
(* Properties of MWDBObject.create *)

\* the class create() makes for a type discriminant
ClassOf(type) ==
    CASE type = "file" -> "MWDBFile"
      [] type = "static_config" -> "MWDBConfig"
      [] type = "text_blob" -> "MWDBBlob"
      [] OTHER -> "none"

\* C21: create makes no request and goes by the "type" member of the payload
\* alone: "file", "static_config" and "text_blob" give an MWDBFile, an
\* MWDBConfig and an MWDBBlob whose id is the id of the payload and whose
\* cache holds every member of the payload with its value; any other type
\* raises RuntimeError (unsupported object type) and no entity is made.
C21_Create ==
    oper.name = "create" =>
        LET payload == oper.arg[1] IN
        /\ requests = <<>>
        /\ "type" \in DOMAIN payload =>
              IF payload["type"] \in {"file", "static_config", "text_blob"}
              THEN /\ result = <<"return", ClassOf(payload["type"])>>
                   /\ cls = ClassOf(payload["type"])
                   /\ "id" \in DOMAIN data /\ data["id"] = payload["id"]
                   /\ \A k \in DOMAIN payload : k \in DOMAIN data /\ data[k] = payload[k]
              ELSE /\ result = <<"raise", "RuntimeError">>
                   /\ cls = "none"
                   /\ data = EmptyDict

\* a payload of the abstract type "object", with other members, was refused
C21_Witness ==
    /\ oper.name = "create"
    /\ "type" \in DOMAIN oper.arg[1]
    /\ oper.arg[1]["type"] = "object"
    /\ oper.arg[1]["id"] = "id2"
    /\ "tags" \in DOMAIN oper.arg[1]
    /\ result = <<"raise", "RuntimeError">>

----------------------------------------------------------------------------
(* Properties of the version-dependent methods *)

\* the step is a call of a version-dependent method
GatedStep ==
    \/ oper'.name \in GatedMutators
    \/ oper'.name = "read" /\ oper'.arg[1] \in {"attributes", "analyses"}

\* the first call of the step went to the attribute or the Karton endpoint
\* and was answered with EndpointNotFoundError
ModernMissing ==
    /\ requests' # <<>>
    /\ Len(requests'[1].url) >= 3
    /\ requests'[1].url[3] \in {"attribute", "karton"}
    /\ responses'[1] = "EndpointNotFoundError"

\* the version that brought the endpoint, and the version of the fallback
\* registered for its methods (None: no fallback)
RequiredVersion(url) == IF url[3] = "attribute" THEN <<2, 6, 0>> ELSE <<2, 3, 0>>

FallbackVersion(url) == IF url[3] = "attribute" THEN <<2, 0, 0>> ELSE <<>>

\* the calls the step has made when it knows the version of the server
CallsToVersion == IF server_metadata = None THEN 2 ELSE 1

\* C22: when the attribute or Karton endpoint answers a version-dependent
\* method with EndpointNotFoundError, the version of the server is consulted
\* (fetched from the server endpoint unless the client holds it). If it is at
\* or above the version that brought the endpoint, EndpointNotFoundError is
\* raised and nothing else is called; if it is below and at or above the
\* version of the registered fallback, the fallback is run once (at most one
\* call, to the metakey endpoint) and the method ends as the fallback ends;
\* if no fallback qualifies, VersionMismatchError is raised.
C22_VersionGate ==
    [][(GatedStep /\ ModernMissing) =>
          LET url == requests'[1].url
              n == CallsToVersion
              version == parse_version(server_version)
          IN  /\ server_metadata = None =>
                    /\ Len(requests') >= 2
                    /\ requests'[2] = [method |-> "get", url |-> <<"server">>]
                    /\ responses'[2] # None =>
                          /\ Len(requests') = 2
                          /\ result' = <<"raise", responses'[2]>>
              /\ server_metadata # None => server_metadata' = server_metadata
              /\ server_metadata' # None =>
                    /\ server_metadata' = server_version
                    /\ IF VersionGE(version, RequiredVersion(url))
                       THEN /\ result' = <<"raise", "EndpointNotFoundError">>
                            /\ Len(requests') = n
                            /\ data' = data
                       ELSE IF /\ FallbackVersion(url) # <<>>
                               /\ VersionGE(version, FallbackVersion(url))
                       THEN /\ Len(requests') <= n + 1
                            /\ Len(requests') = n + 1 =>
                                  /\ requests'[n + 1].url = <<"object", "id1", "meta">>
                                  /\ requests'[n + 1].method = requests'[1].method
                                  /\ responses'[n + 1] # None =>
                                        result' = <<"raise", responses'[n + 1]>>
                                  /\ responses'[n + 1] = None => result'[1] = "return"
                            /\ Len(requests') = n =>
                                  \/ result'[1] = "return" /\ "metakeys" \in DOMAIN data
                                  \/ result' = <<"raise", "TypeError">>
                       ELSE /\ result' = <<"raise", "VersionMismatchError">>
                            /\ Len(requests') = n
                            /\ data' = data]_vars

\* the Karton endpoint of a 2.6.0 server answered a read of the analyses with
\* EndpointNotFoundError, the version was fetched and the error raised
C22_Witness ==
    /\ oper.name = "read"
    /\ oper.arg = <<"analyses">>
    /\ server_version = "2.6.0"
    /\ responses = <<"EndpointNotFoundError", None>>
    /\ result = <<"raise", "EndpointNotFoundError">>

----------------------------------------------------------------------------
(* Properties of the errors met by the operations on an entity *)

\* the step is an operation on the entity: a read of a field, a mutator,
\* flush or remove
EntityStep == oper'.name \in {"read", "flush", "remove"} \cup Mutators

\* call i of the step ended with an error
FailedAt(i) == i \in 1..Len(responses') /\ responses'[i] # None

\* C23 as stated: when a call of an operation on an entity ends with an
\* error of the transport, the operation raises that error and the cache is
\* what it was before the operation.
C23_ErrorsPropagateAsStated ==
    [][EntityStep =>
          \A i \in 1..Len(responses') :
              FailedAt(i) => /\ result' = <<"raise", responses'[i]>>
                             /\ data' = data]_vars

\* C23 amended: an operation on an entity that raises leaves the cache as it
\* was, and when one of its calls ends with an error of the transport it
\* raises that error, calling nothing afterwards but the server endpoint for
\* the version; the one exception is the EndpointNotFoundError that the
\* attribute or Karton endpoint of a server older than the endpoint answers
\* to a version-dependent method, after which the method falls back or
\* raises VersionMismatchError.
C23_ErrorsPropagate ==
    [][EntityStep =>
          /\ result'[1] = "raise" => data' = data
          /\ \A i \in 1..Len(responses') :
                FailedAt(i) =>
                    \/ /\ result' = <<"raise", responses'[i]>>
                       /\ \A j \in (i + 1)..Len(requests') : requests'[j].url = <<"server">>
                    \/ /\ GatedStep
                       /\ ModernMissing
                       /\ i = 1
                       /\ ~VersionGE(parse_version(server_version),
                                     RequiredVersion(requests'[1].url))]_vars

\* the write of remove_tag failed on an entity whose tags and comments are
\* cached: the error was raised and they still are
C23_Witness ==
    /\ oper.name = "remove_tag"
    /\ responses = <<"ObjectNotFoundError">>
    /\ result = <<"raise", "ObjectNotFoundError">>
    /\ {"tags", "comments"} \subseteq DOMAIN data

----------------------------------------------------------------------------
(* Properties of the identity of an entity *)

\* C24: whatever reads of fields, mutators, flushes and removes have been
\* made on an entity, whether they returned or raised, its cache holds the
\* key "id" with the identifier the entity was made with.
C24_Identity ==
    cls # "none" => "id" \in DOMAIN data /\ data["id"] = Id

\* remove has returned and the cache of the entity it flushed holds the
\* identifier and the type
C24_Witness ==
    /\ oper.name = "remove"
    /\ Returned
    /\ data = [k \in {"id", "type"} |-> IF k = "id" THEN Id ELSE TYPE(cls)]

----------------------------------------------------------------------------
(* Properties of the retry loop against transient failures *)

\* a dispatch that the server has answered has ended
Answered == Ended /\ log # <<>>

\* the dispatch has returned the value of the successful response that ended it
ReturnedSuccess ==
    /\ log # <<>>
    /\ log[Len(log)].ev = "send"
    /\ log[Len(log)].status = 200
    /\ outcome = IF call.op = "login" THEN <<"return", None>>
                 ELSE <<"return", IF call.raw THEN "content" ELSE "json", log[Len(log)].body>>

\* the dispatch has raised the downtime error of a POST that is not sent
\* again because retry_idempotent is unset
PostNotRetried ==
    /\ ~options.retry_idempotent
    /\ log # <<>>
    /\ DowntimeAt(Len(log))
    /\ log[Len(log)].method = "post"
    /\ outcome = <<"raise", IF log[Len(log)].status = 0 THEN "ConnectionError"
                            ELSE "GatewayError">>

\* C25 as stated: against a server that answers a dispatch with finitely many
\* transient failures (429 with obey_ratelimiter set, 401 followed by a
\* successful re-login, at most max_downtime_retries downtime errors with
\* retry_on_downtime set) and then with a success, every dispatch ends, and
\* it ends by returning the value of that success.
C25_AbsorbedAsStated ==
    /\ [](Answered => ReturnedSuccess)
    /\ (~Idle ~> Idle)

\* C25 amended: against such a server every dispatch ends, and it ends by
\* returning the value of the success, unless retry_idempotent is unset and a
\* POST (of the dispatch or of its re-login) met a downtime error, which is
\* then raised at once.
C25_Absorbed ==
    /\ [](Answered => (ReturnedSuccess \/ PostNotRetried))
    /\ (~Idle ~> Idle)

\* a dispatch has returned after a downtime error and a 429
C25_Witness ==
    /\ Ended
    /\ ReturnedSuccess
    /\ Len(log) = 5
    /\ DowntimeAt(1)
    /\ log[3].status = 429

----------------------------------------------------------------------------
(* Properties of MWDB._listen *)

\* the entries of the listing before the pivot, which the listing holds
Before(listing, pivot) ==
    SubSeq(listing, 1, (CHOOSE i \in 1..Len(listing) : listing[i] = pivot) - 1)

\* the generator is in a round, or has ended after one
InRound == listener \in {<<"yield">>, <<"done">>}

\* C26: a round of the generator made with a pivot that the recent listing
\* holds collects exactly the objects the listing returns before the pivot
\* and yields them from the oldest to the newest; no object is yielded twice,
\* in one round or across rounds; when a round has yielded, the pivot is the
\* newest object it yielded; and a generator that is not blocking stops after
\* its first round, while a blocking one polls again.
C26_Listen ==
    [][/\ (listener = <<"poll">> /\ listener' # listener /\ Exists(last))
            => /\ listener' = <<"yield">>
               /\ objects' = Before(repository, last)
       /\ InRound' =>
               \A k \in 1..position' :
                   yielded'[Len(yielded') - position' + k] = objects'[Len(objects') - k + 1]
       /\ \A i, j \in 1..Len(yielded') : i < j => UploadTime(yielded'[i]) < UploadTime(yielded'[j])
       /\ (InRound' /\ position' = Len(objects') /\ objects' # <<>>)
            => /\ last' = objects'[1]
               /\ last' = yielded'[Len(yielded')]
       /\ (listener = <<"yield">> /\ listener' # listener)
            => /\ position = Len(objects)
               /\ listener' = IF blocking THEN <<"poll">> ELSE <<"done">>
       /\ listener' = <<"done">>
            => /\ ~blocking'
               /\ Len(yielded') = Len(objects')]_vars

\* a blocking generator has yielded three objects, the third of them alone
\* in a later round than the others
C26_Witness ==
    /\ blocking
    /\ listener = <<"yield">>
    /\ Len(objects) = 1
    /\ position = 1
    /\ Len(yielded) = 3
    /\ yielded[3] = last

----------------------------------------------------------------------------
(* Properties of a session made with an API key *)

\* the dispatch was made on a session that holds the API key of the options
KeySession ==
    /\ call.op = "request"
    /\ call.auth_token # NoToken
    /\ call.auth_token = call.options.api_key

\* C27: a dispatch made on a session that holds an API key never logs in
\* again by itself and never replaces the key by another token, whether or
\* not the options hold a password as well: after a 401 the key is either
\* still held or dropped with NotAuthenticatedError raised to the caller.
C27_KeyKept ==
    KeySession =>
        /\ \A i \in SendIndices : log[i].url # "auth/login"
        /\ auth_token \in {call.auth_token, NoToken}
        /\ \A i \in SendIndices :
              (log[i].status = 401 /\ i = Len(log)) =>
                  /\ Idle
                  /\ outcome = <<"raise", "NotAuthenticatedError">>

----------------------------------------------------------------------------
(* Properties of the cost of the reads *)

\* the fields whose accessor fetches a sub-resource of the object
SubResourceFields == {"tags", "comments", "shares", "attributes", "metakeys", "analyses"}

\* the step is a read of the field that returns
ReturnedRead(field) == ReadOf(field) /\ result'[1] = "return"

\* the read of a field of the canonical payload: one request, for the payload,
\* when the field is not cached, after which every field of the payload is
\* cached; none when it is cached
CanonicalCost ==
    \A field \in CanonicalFields :
        ReturnedRead(field) =>
            IF field \in DOMAIN data
            THEN requests' = <<>>
            ELSE /\ requests' = <<[method |-> "get", url |-> CanonicalUrl(cls)]>>
                 /\ CanonicalFields \subseteq DOMAIN data'

\* the server has the attribute endpoint
HasAttributes == VersionGE(parse_version(server_version), parse_version("2.6.0"))

\* C28 as stated: a read of a field of the canonical payload that is not cached
\* makes one request, after which the reads of every field of the payload
\* make none; the first read of a sub-resource field (one that is not
\* cached) makes exactly one request.
C28_OneFetchAsStated ==
    [][/\ CanonicalCost
       /\ \A field \in SubResourceFields :
             (ReturnedRead(field) /\ field \notin DOMAIN data) =>
                 Len(requests') = 1]_vars

\* C28 amended: as stated for the fields of the canonical payload; the first
\* read of a sub-resource field makes exactly one request, except the read
\* of attributes on a server without the attribute endpoint, which makes two
\* more when the server version is not known yet (the refused request and the
\* fetch of the version) and one less when the metakeys it falls back to are
\* cached; and the tags, that the canonical payload carries as well, are
\* cached by a read of a field of the canonical payload, so that their read
\* after it makes no request while their read before it makes one and leaves
\* the fields of the canonical payload to be fetched.
C28_OneFetch ==
    [][/\ CanonicalCost
       /\ \A field \in SubResourceFields :
             (ReturnedRead(field) /\ field \notin DOMAIN data) =>
                 IF field = "attributes" /\ ~HasAttributes
                 THEN Len(requests') = (IF server_metadata = None THEN 2 ELSE 0)
                                       + (IF "metakeys" \in DOMAIN data THEN 0 ELSE 1)
                 ELSE Len(requests') = 1
       /\ \A field \in CanonicalFields :
             (ReturnedRead(field) /\ field \notin DOMAIN data) =>
                 "tags" \in DOMAIN data'
       /\ (ReturnedRead("tags") /\ "tags" \notin DOMAIN data) =>
             /\ requests' = <<[method |-> "get", url |-> ObjectUrl("tag")]>>
             /\ DOMAIN data' = DOMAIN data \cup {"tags"}]_vars

\* the children were read with one request, for the canonical payload, and
\* the tags, the upload time and the parents are cached with them
C28_Witness ==
    /\ oper = [name |-> "read", arg |-> <<"children">>]
    /\ Returned
    /\ requests = <<[method |-> "get", url |-> CanonicalUrl(cls)]>>
    /\ CanonicalKeys \subseteq DOMAIN data

----------------------------------------------------------------------------
(* Properties of the download of a file *)

\* the two requests of the download endpoint: the POST that asks for a token
\* and the GET of the contents with that token
ModernExchange(token) ==
    <<[method |-> "post", url |-> DownloadUrl],
      [method |-> "get", url |-> DownloadUrlWith(token)]>>

\* the two requests of the servers before 2.2.0
LegacyExchange(token) ==
    <<[method |-> "post", url |-> <<"request", "sample", Id>>],
      [method |-> "get", url |-> <<"download", token>>]>>

\* the requests of a download that found the download endpoint missing
Probe ==
    <<[method |-> "post", url |-> DownloadUrl], [method |-> "get", url |-> <<"server">>]>>

\* the step is a call of download, made directly or by the read of content
\* of a file whose contents are not held, and it returns
Downloaded ==
    /\ result'[1] = "return"
    /\ \/ oper'.name = "download"
       \/ oper'.name = "content" /\ content = None

\* the read of content: no request and the contents held when some are
\* held, and otherwise the contents downloaded are held afterwards
ContentCached ==
    (oper'.name = "content" /\ result'[1] = "return") =>
        /\ content' = result'[2]
        /\ content # None => (requests' = <<>> /\ content' = content)

\* C29 as stated: a download that returns has made exactly two requests, one
\* for a token and then one for the contents with that token; a read of
\* content downloads when no contents are held and makes no request when
\* some are.
C29_DownloadAsStated ==
    [][/\ Downloaded =>
             \E token \in DownloadTokens :
                 requests' \in {ModernExchange(token), LegacyExchange(token)}
       /\ ContentCached]_vars

\* C29 amended: a download that returns has asked for a token and then
\* fetched the contents with that token, at the download endpoint on a server
\* from 2.2.0 on and at the legacy endpoints on a 2.0.0 server; these are its
\* only requests except on a 2.0.0 server whose version the client does not
\* know yet, where the refused request for a token and the fetch of the
\* server version come first (four requests); on an older server it never
\* returns. A read of content downloads when no contents are held and makes
\* no request when some are, and flush leaves the contents held.
C29_Download ==
    [][/\ Downloaded =>
             \E token \in DownloadTokens :
                 requests' =
                    IF VersionGE(parse_version(server_version), parse_version("2.2.0"))
                    THEN ModernExchange(token)
                    ELSE IF server_metadata = None
                    THEN Probe \o LegacyExchange(token)
                    ELSE LegacyExchange(token)
       /\ Downloaded => VersionGE(parse_version(server_version), parse_version("2.0.0"))
       /\ ContentCached
       /\ oper'.name \in {"flush", "download"} => content' = content]_vars

\* a read of content was served from the contents held: no request was made
C29_Witness ==
    /\ oper.name = "content"
    /\ Returned
    /\ requests = <<>>
    /\ content = FileContents
    /\ result = <<"return", FileContents>>

----------------------------------------------------------------------------
(* Properties of the budget of downtime retries *)

\* the step is a downtime retry: a request answered with a connection error
\* or 502/504 is followed by a sleep, and the loop goes on
DowntimeRetry ==
    /\ Len(log') = Len(log) + 2
    /\ log'[Len(log) + 1].ev = "send"
    /\ log'[Len(log) + 1].status \in {0, 502, 504}
    /\ log'[Len(log) + 2].ev = "sleep"

\* the downtime retries of the requests for the URL that the log records
DowntimeRetries(l, url) ==
    {i \in 2..Len(l) : /\ l[i].ev = "sleep"
                       /\ l[i - 1].ev = "send"
                       /\ l[i - 1].url = url
                       /\ l[i - 1].status \in {0, 502, 504}}

\* C30: in every dispatch (every activation of request(), that of a re-login
\* included) the budget of downtime retries starts at max_downtime_retries,
\* stays between 0 and max_downtime_retries, is one less after a downtime
\* retry of that dispatch and the same after every other step (a 429 retry, a
\* 401 and the re-login that follows it, with the downtime retries of the
\* re-login's own dispatch); so the requests of one dispatch see at most
\* max_downtime_retries downtime retries.
C30_Budget ==
    [][/\ \A i \in 1..Len(stack') :
             /\ stack'[i].downtime_retries \in 0..options'.max_downtime_retries
             /\ i > Len(stack) =>
                    stack'[i].downtime_retries = options.max_downtime_retries
             /\ i <= Len(stack) =>
                    stack'[i].downtime_retries =
                        IF i = Len(stack) /\ DowntimeRetry
                        THEN stack[i].downtime_retries - 1
                        ELSE stack[i].downtime_retries
       /\ (call'.op = "request" /\ call'.url # "auth/login") =>
             Cardinality(DowntimeRetries(log', call'.url)) <= options'.max_downtime_retries]_vars

\* a dispatch that has used up its budget of one retry at least was answered
\* 401, and the dispatch of the re-login has started with a full budget
C30_Witness ==
    /\ Len(stack) = 2
    /\ stack[1].downtime_retries = 0
    /\ options.max_downtime_retries >= 1
    /\ stack[2].downtime_retries = options.max_downtime_retries
    /\ DowntimeRetries(log, stack[1].url) # {}

----------------------------------------------------------------------------
(* Properties of the rate-limit retries *)

\* C31: against a server that answers 429 to every request, a dispatch of a
\* client with obey_ratelimiter set that has sent a request is still in its
\* loop, however many requests it has sent: it has neither returned nor
\* raised, every request it sent was answered 429 and followed by a sleep,
\* and no budget of the activation has changed.
C31_NoLimitBudget ==
    (call.op \in {"request", "login"} /\ call.options.obey_ratelimiter /\ log # <<>>) =>
        /\ ~Idle
        /\ outcome = <<"none">>
        /\ Len(stack) = 1
        /\ Top.downtime_retries = options.max_downtime_retries
        /\ Len(log) = 2 * Sends(log)
        /\ \A i \in 1..Len(log) :
              IF i % 2 = 1
              THEN log[i].ev = "send" /\ log[i].status = 429
              ELSE log[i].ev = "sleep"

\* a dispatch has been answered 429 as many times as the model follows a
\* dispatch, and is still in its loop
C31_Witness ==
    /\ call.op = "request"
    /\ call.options.obey_ratelimiter
    /\ Sends(log) = MaxSends
    /\ \A i \in SendIndices : log[i].status = 429
    /\ ~Idle
    /\ outcome = <<"none">>

----------------------------------------------------------------------------
(* Properties of the session *)

\* the request logged at i was a login that succeeded
LoginSucceededAt(i) ==
    /\ log[i].ev = "send"
    /\ log[i].url = "auth/login"
    /\ log[i].status = 200
    /\ log[i].body = "json"
    /\ JWTValid(log[i].token)

\* C32: whatever calls were made and however they ended, the session has an
\* Authorization header exactly when the client holds a token, the header is
\* "Bearer " followed by that token, and the request sent after a login that
\* succeeded within a dispatch (the retry after the re-login) carries the
\* token that login was issued.
C32_Session ==
    /\ ("Authorization" \in DOMAIN headers) <=> (auth_token # NoToken)
    /\ auth_token # NoToken => headers["Authorization"] = <<"Bearer ">> \o auth_token
    /\ \A i \in SendIndices :
          (i > 1 /\ LoginSucceededAt(i - 1)) =>
              log[i].auth = <<"Bearer ">> \o log[i - 1].token

\* a request rejected with 401 was sent again after the re-login, with a
\* token other than the one rejected
C32_Witness ==
    /\ Len(log) >= 3
    /\ log[1].ev = "send"
    /\ log[1].status = 401
    /\ LoginSucceededAt(2)
    /\ log[3].ev = "send"
    /\ log[3].url = log[1].url
    /\ log[3].auth # log[1].auth
    /\ log[3].auth = <<"Bearer ">> \o log[2].token

----------------------------------------------------------------------------
(* Properties of a re-login that fails *)

\* the dispatch of a request has ended on a request of its re-login that did
\* not succeed
ReloginFailed ==
    /\ Ended
    /\ call.op = "request"
    /\ log # <<>>
    /\ log[Len(log)].ev = "send"
    /\ log[Len(log)].url = "auth/login"
    /\ ~LoginSucceededAt(Len(log))

\* the error of the response logged at i, every error response of the server
\* of SpecSession having the message <<"error">>
ErrorAt(i) ==
    IF log[i].status >= 400 THEN map_http_error(log[i].status, <<"error">>)
    ELSE IF log[i].body # "json" THEN "BadResponseError"
    ELSE "InvalidCredentialsError"

\* a dispatch that requires authentication was made while no token was held
Unauthenticated == call.op = "request" /\ ~call.noauth /\ call.auth_token = NoToken

\* C33: when the re-login of a dispatch fails, the error of the login call
\* is raised from the dispatch, the request is not sent again, and the
\* client holds no token and no Authorization header while it remembers the
\* username and the password it had; a dispatch that requires authentication
\* made while no token is held raises NotAuthenticatedError, sends nothing and
\* attempts no login.
C33_ReloginFails ==
    /\ ReloginFailed =>
          /\ outcome = <<"raise", ErrorAt(Len(log))>>
          /\ auth_token = NoToken
          /\ headers = NoHeaders
          /\ options = call.options
          /\ options.password # None
    /\ Unauthenticated =>
          /\ Idle
          /\ log = <<>>
          /\ outcome = <<"raise", "NotAuthenticatedError">>
          /\ auth_token = NoToken

\* C33 on the re-logins that are not answered 401
C33_ReloginFailsNot401 == log # <<>> /\ log[Len(log)].status # 401 => C33_ReloginFails

----------------------------------------------------------------------------
(* Properties of logout without a token *)

\* C34: logout on a client that holds no token returns and changes nothing;
\* a request made with noauth while no token is held and answered 401 at once
\* raises NotAuthenticatedError when no password is remembered and is followed
\* by the re-login when one is.
C34_SafeClear ==
    /\ (call.op = "logout" /\ call.auth_token = NoToken) =>
          /\ outcome = <<"return", None>>
          /\ auth_token = NoToken
          /\ headers = call.headers
          /\ options = call.options
    /\ (/\ call.op = "request"
        /\ call.noauth
        /\ call.auth_token = NoToken
        /\ Len(log) = 1
        /\ log[1].status = 401) =>
          IF call.options.password = None
          THEN Idle /\ outcome = <<"raise", "NotAuthenticatedError">>
          ELSE Len(stack) = 2 /\ Top.url = "auth/login" /\ outcome = <<"none">>

----------------------------------------------------------------------------
(* Properties of the probing of the server version *)

\* the call went to an endpoint of a main method
Modern(request) == Len(request.url) >= 3 /\ request.url[3] \in {"attribute", "karton"}

\* the calls of the step that fetched the server metadata
ServerCalls == {i \in 1..Len(requests') : requests'[i].url = <<"server">>}

\* the step is a call of a method that requires 2.6.0 (the others require
\* 2.3.0) and has a fallback for 2.0.0 (the others have none)
OnAttributes ==
    \/ oper'.name = "add_attribute"
    \/ oper'.name = "read" /\ oper'.arg[1] = "attributes"

\* the client knows the version of the server and it is below the
\* requirement of the method called
KnownBelow ==
    /\ server_metadata # None
    /\ ~VersionGE(parse_version(server_metadata),
                  IF OnAttributes THEN <<2, 6, 0>> ELSE <<2, 3, 0>>)

\* C35: a version-dependent method called while the client does not hold the
\* server version calls its main method first, and fetches the version only
\* if the main method's call was answered with EndpointNotFoundError; called
\* while the client holds a version below its requirement it never calls the
\* endpoint of the main method: it runs the fallback at once (at most one
\* call, to the metakey endpoint) or, with no fallback for that version,
\* raises VersionMismatchError without a call; the server metadata is never
\* fetched again once the client holds it, and at most once in one step.
C35_LazyProbe ==
    [][/\ (GatedStep /\ server_metadata = None) =>
             /\ requests' # <<>> => Modern(requests'[1])
             /\ (requests' = <<>> \/ responses'[1] # "EndpointNotFoundError") =>
                    /\ ServerCalls = {}
                    /\ server_metadata' = None
       /\ (GatedStep /\ KnownBelow) =>
             /\ \A i \in 1..Len(requests') : ~Modern(requests'[i])
             /\ IF OnAttributes /\ VersionGE(parse_version(server_metadata), <<2, 0, 0>>)
                THEN /\ Len(requests') <= 1
                     /\ \A i \in 1..Len(requests') :
                           requests'[i].url = <<"object", "id1", "meta">>
                     /\ result' # <<"raise", "VersionMismatchError">>
                ELSE /\ requests' = <<>>
                     /\ result' = <<"raise", "VersionMismatchError">>
       /\ server_metadata # None =>
             /\ ServerCalls = {}
             /\ server_metadata' = server_metadata
       /\ Cardinality(ServerCalls) <= 1]_vars

\* the attributes were read on a client that held the version of a 2.2.0
\* server: the metakeys were fetched and nothing else
C35_Witness ==
    /\ oper = [name |-> "read", arg |-> <<"attributes">>]
    /\ Returned
    /\ server_metadata = "2.2.0"
    /\ requests = <<[method |-> "get", url |-> <<"object", "id1", "meta">>]>>

----------------------------------------------------------------------------
(* Properties of the delete of a comment *)

\* the comments of the list
Elements(list) == {list[i] : i \in 1..Len(list)}

\* C36: the delete of a comment makes exactly one call, a DELETE of
\* object/<id of the parent>/comment/<id of the comment>, and leaves the
\* cache of the parent as it was, whether the call succeeds or not; a read
\* of the comments that follows a delete on a parent whose comments are
\* cached makes no call and returns the cached list, the deleted comment
\* still in it if it was.
C36_CommentDelete ==
    [][/\ oper'.name = "delete_comment" =>
             /\ requests' = <<[method |-> "delete",
                               url |-> <<"object", Id, "comment", oper'.arg[1]>>]>>
             /\ data' = data
       /\ (/\ oper.name = "delete_comment"
           /\ Returned
           /\ "comments" \in DOMAIN data
           /\ ReadOf("comments")) =>
             /\ requests' = <<>>
             /\ result' = <<"return", data["comments"]>>
             /\ oper.arg[1] \in Elements(data["comments"]) =>
                    oper.arg[1] \in Elements(result'[2])]_vars

\* a comment of the cached list was deleted, and is still in the cache of
\* its parent
C36_Witness ==
    /\ oper.name = "delete_comment"
    /\ Returned
    /\ "comments" \in DOMAIN data
    /\ oper.arg[1] \in Elements(data["comments"])

----------------------------------------------------------------------------
(* Properties of flush and remove on every entity *)

\* C37: on every entity, one made with its identity alone included, flush
\* returns and leaves a cache that holds the identity it held and at most the
\* type discriminant besides; and a remove whose DELETE was answered with
\* success returns.
C37_FlushRemoveSucceed ==
    [][/\ oper'.name = "flush" =>
             /\ result' = <<"return", None>>
             /\ "id" \in DOMAIN data'
             /\ data'["id"] = data["id"]
             /\ DOMAIN data' \subseteq {"id", "type"}
       /\ (oper'.name = "remove" /\ responses' = <<None>>) =>
             result' = <<"return", None>>]_vars

\* a thread that has re-logged in and stands at the retry of its request
Relogged(t) == threads[t].logins > 0 /\ threads[t].pc = "send"

\* C38: nothing serialises the clear-token / re-login / retry sequence of two
\* threads on one client: a thread answered 401 re-logs in itself whatever the
\* other thread has done to the session meanwhile, so a thread that stands at
\* the retry of its request, or has returned, has posted one login for each
\* 401 it was answered (and two threads answered 401 for the same stale token
\* can both post one, one of them clearing the token the other is about to send)
C38_EachThreadRelogs ==
    \A t \in DOMAIN threads :
        /\ threads[t].logins \in {threads[t].rejected - 1, threads[t].rejected}
        /\ (threads[t].pc = "send" \/ (threads[t].pc = "done" /\ threads[t].exc = None))
              => threads[t].logins = threads[t].rejected

\* both threads were answered 401 for the stale token and both have posted a
\* login; the first stands at its retry while the second has cleared the token
C38_Witness ==
    /\ DOMAIN threads = Threads
    /\ options.password # None
    /\ \A t \in Threads : threads[t].stale = 1 /\ threads[t].logins = 1
    /\ Relogged(1)
    /\ threads[1].rejected = 1
    /\ auth_token = NoToken
    /\ ~HasAuthorization(headers)

\* a GET of the sub-resource was answered among the calls reqs
SubFetched(reqs, resps, sub) ==
    \E i \in 1..Len(reqs) : reqs[i].url = ObjectUrl(sub) /\ resps[i] = None

CanonicalFetched(reqs, resps) ==
    \E i \in 1..Len(reqs) : reqs[i].url = CanonicalUrl(cls) /\ resps[i] = None

\* the cache after differs from the cache before at no key but those of keys
SameBut(before, after, keys) ==
    /\ DOMAIN after \ keys = DOMAIN before \ keys
    /\ \A k \in DOMAIN after \ keys : after[k] = before[k]

\* C39: a read that fetches a sub-resource (tag, comment, share, attribute,
\* meta, karton) changes the cache at no key but the one of that sub-resource,
\* whatever members the response has; and a read changes upload_time, parents
\* or children in the cache only when it fetches the canonical detail.
C39_OwnKeyOnly ==
    [][oper'.name = "read" =>
          /\ \A sub \in SubResources :
                SubFetched(requests', responses', sub) => SameBut(data, data', {SubKey(sub)})
          /\ ~SameBut(data, data', DOMAIN data' \ CanonicalFields)
                => CanonicalFetched(requests', responses')]_vars

\* the same of the sub-resources that are loaded through a mapper
C39_MappedOwnKeyOnly ==
    [][oper'.name = "read" =>
          \A sub \in {"tag", "comment", "share", "karton"} :
             SubFetched(requests', responses', sub) => SameBut(data, data', {SubKey(sub)})]_vars

====
